---- MODULE Spec2Model ----
(***************************************************************************)
(* A model of the chess rules engine: piece validators, the special-move   *)
(* handlers, MoveExecutor (commit and probe mode), Game (legal-move        *)
(* generation with its two attack caches), GameState (ledger and undo/redo *)
(* snapshots), GameEndDetection and ChessGameController.                    *)
(*                                                                         *)
(* JavaScript objects are modelled with an explicit heap: a "world" w is a *)
(* record [h, b] where h is the sequence of all piece objects allocated so *)
(* far and b is a board, an 8x8 grid of references into h (0 = null).      *)
(* Mutating a piece object is an update of h, so aliasing between boards   *)
(* and moves is visible.  The controller's own fields hold board values    *)
(* (grids of piece records), obtained by dereferencing.                    *)
(***************************************************************************)
EXTENDS Integers, Sequences, FiniteSets, TLC

Rows == 0..7

NoPiece == [type |-> "none", color |-> "none", hasMoved |-> FALSE]

Piece(t, c, m) == [type |-> t, color |-> c, hasMoved |-> m]

Coord(r, c) == [row |-> r, col |-> c]

NoCoord == [row |-> -1, col |-> -1]

Abs(x) == IF x < 0 THEN -x ELSE x

Sign(x) == IF x > 0 THEN 1 ELSE IF x < 0 THEN -1 ELSE 0

Max(x, y) == IF x > y THEN x ELSE y

Opponent(color) == IF color = "white" THEN "black" ELSE "white"

PROMOTION_PIECES == <<"queen", "rook", "bishop", "knight">>

\* GAME_CONFIG.castling and GAME_CONFIG.promotion
kingsideKingCol == 6
queensideKingCol == 2
kingsideRookFromCol == 7
kingsideRookToCol == 5
queensideRookFromCol == 0
queensideRookToCol == 3
promotionRankWhite == 7
promotionRankBlack == 0

\* BOARD_CONFIG.initialPosition
pieceOrder == <<"rook", "knight", "bishop", "queen", "king", "bishop", "knight", "rook">>
pawnRankWhite == 1
pawnRankBlack == 6
pieceRankWhite == 0
pieceRankBlack == 7

(***************************************************************************)
(* Heap and boards                                                         *)
(***************************************************************************)
EmptyGrid == [r \in Rows |-> [c \in Rows |-> 0]]

EmptyWorld == [h |-> <<>>, b |-> EmptyGrid, g |-> 1, n |-> 1]

\* board[p.row][p.col] as a reference
RefAt(w, p) == w.b[p.row][p.col]

\* the piece record a reference denotes (NoPiece for null)
Obj(w, ref) == IF ref = 0 THEN NoPiece ELSE w.h[ref]

SetRef(w, p, ref) == [w EXCEPT !.b[p.row][p.col] = ref]

\* allocate a new object holding a copy of piece record v: { ...piece }
Alloc(w, v) == [w EXCEPT !.h = Append(w.h, v)]

\* v with every element computed: a function is held as the table of its values
Computed(v) == IF v = v THEN v ELSE v

\* the value of a board: the grid of piece records
Deref(w) == Computed([r \in Rows |-> [c \in Rows |-> Obj(w, w.b[r][c])]])

\* the squares of a grid that satisfy Occupied, in row-major order, as numbers 8r+c
OccupiedSquares(Occupied(_, _)) ==
  SelectSeq([i \in 1..64 |-> i - 1], LAMBDA k : Occupied(k \div 8, k % 8))

\* position of square (r, c) among the occupied squares, in row-major order
RankOf(Occupied(_, _), r, c) ==
  Cardinality({k \in 0..(8 * r + c) : Occupied(k \div 8, k % 8)})

\* a copy that is the board itself: the grid and the piece objects are shared
cloneBoardShared(w) == w

\* BoardUtils.cloneBoard, and every board.map(row => row.map(piece => piece ?
\* { ...piece } : null)): a new grid whose pieces are new objects, allocated in
\* row-major order
cloneBoard(w) ==
  LET Occ(r, c) == w.b[r][c] # 0
      occ == OccupiedSquares(Occ)
  IN [h |-> w.h \o [i \in 1..Len(occ) |-> w.h[w.b[occ[i] \div 8][occ[i] % 8]]],
      b |-> Computed([r \in Rows |-> [c \in Rows |->
               IF w.b[r][c] = 0 THEN 0 ELSE Len(w.h) + RankOf(Occ, r, c)]]),
      g |-> w.n + 1, n |-> w.n + 1]

\* the heap holding exactly the objects of one board value
Load(board) ==
  LET Occ(r, c) == board[r][c] # NoPiece
      occ == OccupiedSquares(Occ)
  IN [h |-> Computed([i \in 1..Len(occ) |-> board[occ[i] \div 8][occ[i] % 8]]),
      b |-> Computed([r \in Rows |-> [c \in Rows |->
               IF board[r][c] = NoPiece THEN 0 ELSE RankOf(Occ, r, c)]]),
      g |-> 1, n |-> 1]

\* BoardUtils.createInitialBoard
createInitialBoard ==
  [r \in Rows |-> [c \in Rows |->
     IF r = pawnRankWhite THEN Piece("pawn", "white", FALSE)
     ELSE IF r = pawnRankBlack THEN Piece("pawn", "black", FALSE)
     ELSE IF r = pieceRankWhite THEN Piece(pieceOrder[c + 1], "white", FALSE)
     ELSE IF r = pieceRankBlack THEN Piece(pieceOrder[c + 1], "black", FALSE)
     ELSE NoPiece]]

(***************************************************************************)
(* Piece validators                                                        *)
(***************************************************************************)
isValidCoord(p) == p.row >= 0 /\ p.row <= 7 /\ p.col >= 0 /\ p.col <= 7

\* the squares visited by the while loop of a sliding getPotentialMoves
Ray(from, dRow, dCol) ==
  LET n == Cardinality({k \in 1..7 :
             isValidCoord(Coord(from.row + k * dRow, from.col + k * dCol))})
  IN [k \in 1..n |-> Coord(from.row + k * dRow, from.col + k * dCol)]

OnBoard(seq) == SelectSeq(seq, isValidCoord)

RookGetPotentialMoves(from) ==
  Ray(from, 1, 0) \o Ray(from, -1, 0) \o Ray(from, 0, 1) \o Ray(from, 0, -1)

BishopGetPotentialMoves(from) ==
  Ray(from, 1, 1) \o Ray(from, 1, -1) \o Ray(from, -1, 1) \o Ray(from, -1, -1)

QueenGetPotentialMoves(from) ==
  BishopGetPotentialMoves(from) \o RookGetPotentialMoves(from)

KnightGetPotentialMoves(from) ==
  OnBoard(<<Coord(from.row + 1, from.col + 2), Coord(from.row + 1, from.col - 2),
            Coord(from.row - 1, from.col + 2), Coord(from.row - 1, from.col - 2),
            Coord(from.row + 2, from.col + 1), Coord(from.row + 2, from.col - 1),
            Coord(from.row - 2, from.col + 1), Coord(from.row - 2, from.col - 1)>>)

KingGetPotentialMoves(from) ==
  OnBoard(<<Coord(from.row - 1, from.col - 1), Coord(from.row - 1, from.col),
            Coord(from.row - 1, from.col + 1), Coord(from.row, from.col - 1),
            Coord(from.row, from.col + 1), Coord(from.row + 1, from.col - 1),
            Coord(from.row + 1, from.col), Coord(from.row + 1, from.col + 1)>>)

\* the pawn's potential moves without the advance of two squares
PawnGetPotentialMovesOneStep(color, from) ==
  LET direction == IF color = "white" THEN 1 ELSE -1
  IN OnBoard(<<Coord(from.row + direction, from.col)>>)
     \o OnBoard(<<Coord(from.row + direction, from.col - 1)>>)
     \o OnBoard(<<Coord(from.row + direction, from.col + 1)>>)

PawnGetPotentialMoves(color, from) ==
  LET direction == IF color = "white" THEN 1 ELSE -1
      startRow == IF color = "white" THEN 1 ELSE 6
  IN OnBoard(<<Coord(from.row + direction, from.col)>>)
     \o (IF from.row = startRow
         THEN OnBoard(<<Coord(from.row + 2 * direction, from.col)>>) ELSE <<>>)
     \o OnBoard(<<Coord(from.row + direction, from.col - 1)>>)
     \o OnBoard(<<Coord(from.row + direction, from.col + 1)>>)

\* ValidatorFactory.getValidatorCached(piece).getPotentialMoves(from)
getPotentialMoves(piece, from) ==
  CASE piece.type = "pawn" -> PawnGetPotentialMoves(piece.color, from)
    [] piece.type = "knight" -> KnightGetPotentialMoves(from)
    [] piece.type = "bishop" -> BishopGetPotentialMoves(from)
    [] piece.type = "rook" -> RookGetPotentialMoves(from)
    [] piece.type = "queen" -> QueenGetPotentialMoves(from)
    [] piece.type = "king" -> KingGetPotentialMoves(from)

\* PieceValidator.isPathClear: every square strictly between from and to is null
isPathClear(w, from, to) ==
  LET dRow == Sign(to.row - from.row)
      dCol == Sign(to.col - from.col)
      n == Max(Abs(to.row - from.row), Abs(to.col - from.col))
  IN \A k \in 1..(n - 1) : w.b[from.row + k * dRow][from.col + k * dCol] = 0

RookIsValidMove(w, from, to) ==
  IF from.row # to.row /\ from.col # to.col THEN FALSE
  ELSE isPathClear(w, from, to)

BishopIsValidMove(w, from, to) ==
  IF Abs(to.row - from.row) # Abs(to.col - from.col) THEN FALSE
  ELSE isPathClear(w, from, to)

QueenIsValidMove(w, from, to) ==
  BishopIsValidMove(w, from, to) \/ RookIsValidMove(w, from, to)

KnightIsValidMove(w, from, to) ==
  LET rowDiff == Abs(to.row - from.row)
      colDiff == Abs(to.col - from.col)
  IN (rowDiff = 1 /\ colDiff = 2) \/ (rowDiff = 2 /\ colDiff = 1)

KingIsValidMove(w, from, to) ==
  Abs(to.row - from.row) <= 1 /\ Abs(to.col - from.col) <= 1

PawnIsValidMove(color, w, from, to) ==
  LET direction == IF color = "white" THEN 1 ELSE -1
      startRow == IF color = "white" THEN 1 ELSE 6
      rowDiff == to.row - from.row
      colDiff == Abs(to.col - from.col)
      destinationPiece == RefAt(w, to)
  IN \/ rowDiff = direction /\ colDiff = 0 /\ destinationPiece = 0
     \/ /\ from.row = startRow /\ rowDiff = 2 * direction /\ colDiff = 0
        /\ destinationPiece = 0 /\ w.b[from.row + direction][from.col] = 0
     \/ /\ rowDiff = direction /\ colDiff = 1 /\ destinationPiece # 0
        /\ Obj(w, destinationPiece).color # color

\* ValidatorFactory.getValidatorCached(piece).isValidMove(board, from, to)
isValidMove(w, piece, from, to) ==
  CASE piece.type = "pawn" -> PawnIsValidMove(piece.color, w, from, to)
    [] piece.type = "knight" -> KnightIsValidMove(w, from, to)
    [] piece.type = "bishop" -> BishopIsValidMove(w, from, to)
    [] piece.type = "rook" -> RookIsValidMove(w, from, to)
    [] piece.type = "queen" -> QueenIsValidMove(w, from, to)
    [] piece.type = "king" -> KingIsValidMove(w, from, to)

\* Game._calculateIsSquareAttacked: the uncached scan
calculateIsSquareAttacked(w, pos, color) ==
  \E r \in Rows, c \in Rows :
     LET piece == Obj(w, w.b[r][c])
     IN /\ piece # NoPiece
        /\ piece.color = color
        /\ IF piece.type = "pawn"
           THEN LET dir == IF color = "white" THEN 1 ELSE -1
                IN r + dir = pos.row /\ (c - 1 = pos.col \/ c + 1 = pos.col)
           ELSE isValidMove(w, piece, Coord(r, c), pos)

(***************************************************************************)
(* Moves.  Inside MoveExecutor and Game a move refers to piece objects:    *)
(* piece and captured are references (captured = 0 when undefined).        *)
(***************************************************************************)
MoveRef(from, to, piece, captured, isEnPassant, isCastling, promotion) ==
  [from |-> from, to |-> to, piece |-> piece, captured |-> captured,
   isEnPassant |-> isEnPassant, isCastling |-> isCastling, promotion |-> promotion]

\* the move as the controller reads it later: the objects' fields
MoveValue(w, m) ==
  [from |-> m.from, to |-> m.to, piece |-> Obj(w, m.piece),
   captured |-> Obj(w, m.captured), isEnPassant |-> m.isEnPassant,
   isCastling |-> m.isCastling, promotion |-> m.promotion]

NoMove ==
  [from |-> NoCoord, to |-> NoCoord, piece |-> NoPiece, captured |-> NoPiece,
   isEnPassant |-> FALSE, isCastling |-> "none", promotion |-> "none"]

(***************************************************************************)
(* PromotionHandler                                                        *)
(***************************************************************************)
needsPromotion(piece, to) ==
  IF piece.type # "pawn" THEN FALSE
  ELSE to.row = (IF piece.color = "white" THEN promotionRankWhite ELSE promotionRankBlack)

\* a promotion that copies the board and leaves the pawn a pawn
executePromotionKeepPawn(w, position, newPieceType) == cloneBoard(w)

\* PromotionHandler.executePromotion:
\* returns the world whose board is the NEW board; the board passed in is not touched
executePromotion(w, position, newPieceType) ==
  LET Promote(newBoard, piece) ==
        IF piece # 0 /\ newBoard.h[piece].type = "pawn"
        THEN [newBoard EXCEPT !.h[piece].type = newPieceType]
        ELSE newBoard
      OnNewBoard(newBoard) == Promote(newBoard, RefAt(newBoard, position))
  IN OnNewBoard(cloneBoard(w))

unmakePromotion(w, position) ==
  LET piece == RefAt(w, position)
  IN IF piece # 0 THEN [w EXCEPT !.h[piece].type = "pawn"] ELSE w

(***************************************************************************)
(* CastlingHandler                                                         *)
(***************************************************************************)
\* returns the world whose board is the NEW board; the board passed in is not touched
executeCastling(w, move) ==
  IF move.isCastling = "none" THEN w
  ELSE
    LET row == move.from.row
        isKingside == move.isCastling = "kingside"
        rookFromCol == IF isKingside THEN kingsideRookFromCol ELSE queensideRookFromCol
        rookToCol == IF isKingside THEN kingsideRookToCol ELSE queensideRookToCol
        MoveRook(newBoard, rook) ==
          IF rook # 0
          THEN [SetRef(SetRef(newBoard, Coord(row, rookToCol), rook),
                       Coord(row, rookFromCol), 0)
                  EXCEPT !.h[rook].hasMoved = TRUE]
          ELSE newBoard
        WithKingMoved(newBoard) == MoveRook(newBoard, newBoard.b[row][rookFromCol])
        MoveKing(newBoard, king) ==
          WithKingMoved(IF king # 0
                        THEN [SetRef(SetRef(newBoard, move.to, king), move.from, 0)
                                EXCEPT !.h[king].hasMoved = TRUE]
                        ELSE newBoard)
        OnNewBoard(newBoard) == MoveKing(newBoard, RefAt(newBoard, move.from))
    IN OnNewBoard(cloneBoard(w))

unmakeCastling(w, move) ==
  LET isKingside == move.isCastling = "kingside"
      row == move.from.row
      kingToCol == move.from.col
      rookFromCol == IF isKingside THEN kingsideRookFromCol ELSE queensideRookFromCol
      rookToCol == IF isKingside THEN kingsideRookToCol ELSE queensideRookToCol
      king == RefAt(w, move.to)
      rook == w.b[row][rookToCol]
  IN IF king # 0 /\ rook # 0
     THEN SetRef(SetRef(SetRef(SetRef(
            [w EXCEPT !.h[king].hasMoved = FALSE, !.h[rook].hasMoved = FALSE],
            Coord(row, kingToCol), king), move.to, 0),
            Coord(row, rookFromCol), rook), Coord(row, rookToCol), 0)
     ELSE w

(***************************************************************************)
(* EnPassantHandler                                                        *)
(***************************************************************************)
\* pawn is a piece record, lastMove a move value (NoMove for null)
isEnPassantMove(pawn, w, from, to, lastMove) ==
  IF lastMove = NoMove \/ lastMove.piece.type # "pawn" THEN FALSE
  ELSE IF Abs(lastMove.to.row - lastMove.from.row) # 2 THEN FALSE
  ELSE IF from.row # (IF pawn.color = "white" THEN 4 ELSE 3) THEN FALSE
  ELSE IF to.row - from.row # (IF pawn.color = "white" THEN 1 ELSE -1)
          \/ Abs(to.col - from.col) # 1 THEN FALSE
  ELSE IF RefAt(w, to) # 0 THEN FALSE
  ELSE lastMove.to.col = to.col /\ lastMove.to.row = from.row

\* returns the world whose board is the NEW board; the board passed in is not touched
executeEnPassant(w, move) ==
  IF ~move.isEnPassant THEN w
  ELSE
    LET MovePawn(newBoard, pawn) ==
          IF pawn # 0
          THEN [SetRef(SetRef(newBoard, move.to, pawn), move.from, 0)
                  EXCEPT !.h[pawn].hasMoved = TRUE]
          ELSE newBoard
        OnNewBoard(newBoard) ==
          SetRef(MovePawn(newBoard, RefAt(newBoard, move.from)),
                 Coord(move.from.row, move.to.col), 0)
    IN OnNewBoard(cloneBoard(w))

unmakeEnPassant(w, move) ==
  LET movingPawn == RefAt(w, move.to)
  IN IF movingPawn # 0
     THEN SetRef(SetRef(SetRef(
            [w EXCEPT !.h[movingPawn].hasMoved = w.h[move.piece].hasMoved],
            move.from, movingPawn), move.to, 0),
            Coord(move.from.row, move.to.col), move.captured)
     ELSE w

(***************************************************************************)
(* MoveExecutor                                                            *)
(***************************************************************************)
\* a normal move that leaves the hasMoved flag of the piece as it was
makeNormalMoveKeepFlag(w, move) ==
  LET piece == RefAt(w, move.from)
  IN IF piece = 0 THEN w
     ELSE SetRef(SetRef(w, move.to, piece), move.from, 0)

\* MoveExecutor._makeNormalMove
makeNormalMove(w, move) ==
  LET piece == RefAt(w, move.from)
  IN IF piece = 0 THEN w
     ELSE [SetRef(SetRef(w, move.to, piece), move.from, 0)
             EXCEPT !.h[piece].hasMoved = TRUE]

\* the reversal of a normal move that leaves the hasMoved flag as the move set it
unmakeNormalMoveKeepFlag(w, move) ==
  LET movedPiece == RefAt(w, move.to)
  IN IF movedPiece = 0 THEN w
     ELSE SetRef(SetRef(w, move.from, movedPiece), move.to, move.captured)

\* MoveExecutor._unmakeNormalMove
unmakeNormalMove(w, move) ==
  LET movedPiece == RefAt(w, move.to)
  IN IF movedPiece = 0 THEN w
     ELSE SetRef(SetRef([w EXCEPT !.h[movedPiece].hasMoved = w.h[move.piece].hasMoved],
                        move.from, movedPiece), move.to, move.captured)

\* what a call that ignores the callee's return value leaves behind: the callee's
\* allocations, and the caller's board as it was
Discard(w, returned) ==
  [h |-> returned.h, b |-> IF returned.g = w.g THEN returned.b ELSE w.b,
   g |-> w.g, n |-> returned.n]

\* MoveExecutor._makeMove: mutates the board of w in place
makeMove(w, move) ==
  LET Promotion(moved) ==
        IF move.promotion # "none"
        THEN Discard(moved, executePromotion(moved, move.to, move.promotion))
        ELSE moved
  IN Promotion(IF move.isCastling # "none" THEN Discard(w, executeCastling(w, move))
               ELSE IF move.isEnPassant THEN Discard(w, executeEnPassant(w, move))
               ELSE makeNormalMove(w, move))

\* MoveExecutor._unmakeMove: mutates the board of w in place
unmakeMove(w, move) ==
  LET Unmake(unpromoted) ==
        IF move.isCastling # "none" THEN unmakeCastling(unpromoted, move)
        ELSE IF move.isEnPassant THEN unmakeEnPassant(unpromoted, move)
        ELSE unmakeNormalMove(unpromoted, move)
  IN Unmake(IF move.promotion # "none" THEN unmakePromotion(w, move.to) ELSE w)

\* MoveExecutor.executeMove: the world whose board is the returned newBoard
executeMove(w, move) == makeMove(cloneBoard(w), move)

(***************************************************************************)
(* Game: the pass-scoped cache and probe mode                              *)
(***************************************************************************)
EmptyCache == [k \in {} |-> FALSE]

tempCacheKey(p, c) == <<p.row, p.col, c>>

\* the closure isAttackedDuringSim of _validateMoveLite and _generateSpecialMoves:
\* its answer and the moveGenCache it leaves
isAttackedDuringSim(w, p, c, moveGenCache) ==
  LET key == tempCacheKey(p, c)
  IN IF key \in DOMAIN moveGenCache
     THEN [result |-> moveGenCache[key], cache |-> moveGenCache]
     ELSE LET Store(result) ==
                [result |-> result, cache |-> (key :> result) @@ moveGenCache]
          IN Store(calculateIsSquareAttacked(w, p, c))

\* MoveExecutor.wouldLeaveKingInCheck with isAttackedDuringSim as its callback:
\* the boolean answer, the world after the call, the cache after the call
wouldLeaveKingInCheck(w, move, kingPos, moveGenCache) ==
  LET Unmade(made, a) ==
        [isCheck |-> a.result, w |-> unmakeMove(made, move), cache |-> a.cache]
      Made(made) ==
        Unmade(made,
               isAttackedDuringSim(made,
                 IF made.h[move.piece].type = "king" THEN move.to ELSE kingPos,
                 IF made.h[move.piece].color = "white" THEN "black" ELSE "white",
                 moveGenCache))
  IN Made(makeMove(w, move))

(***************************************************************************)
(* Game: legal-move generation.  A pass threads g = [w, cache, moves]: the *)
(* world holding the validation board, moveGenCache, the moves pushed.     *)
(* gs carries the GameState fields generation reads.                       *)
(***************************************************************************)
KingPosOf(gs, color) == IF color = "white" THEN gs.whiteKingPos ELSE gs.blackKingPos

\* Game._validateMoveLite; piece is the reference held by the caller
validateMoveLite(g, piece, from, to, gs) ==
  LET destinationPiece == RefAt(g.w, to)
  IN IF destinationPiece # 0 /\ g.w.h[destinationPiece].color = g.w.h[piece].color
     THEN g
     ELSE
       LET kingPos == KingPosOf(gs, g.w.h[piece].color)
           Push(move, r) ==
             [w |-> r.w, cache |-> r.cache,
              moves |-> IF r.isCheck THEN g.moves ELSE Append(g.moves, move)]
           Validate(w1, move) ==
             Push(move, wouldLeaveKingInCheck(w1, move, kingPos, g.cache))
           \* pieceSnapshot = { ...piece } is the newest object of w1
           WithSnapshot(w1) ==
             Validate(w1, MoveRef(from, to, Len(w1.h), destinationPiece, FALSE, "none",
                            IF needsPromotion(g.w.h[piece], to) THEN "queen" ELSE "none"))
       IN WithSnapshot(Alloc(g.w, g.w.h[piece]))

RECURSIVE MovesForPieceFrom(_, _, _, _, _, _, _, _)
\* the iterations first..first + 8 * stride - 1 of the for loop of
\* _generateMovesForPiece, in order (one iteration when stride = 0, none beyond the last
\* destination): the states of the pass after each eighth of them, and of these the last
MovesForPieceFrom(first, stride, potentialDestinations, validator, g, piece, from, gs) ==
  IF first > Len(potentialDestinations) THEN g
  ELSE IF stride = 0
  THEN IF ~isValidMove(g.w, validator, from, potentialDestinations[first]) THEN g
       ELSE validateMoveLite(g, piece, from, potentialDestinations[first], gs)
  ELSE
    LET g1 == MovesForPieceFrom(first, stride \div 8, potentialDestinations,
                                validator, g, piece, from, gs)
        g2 == MovesForPieceFrom(first + stride, stride \div 8, potentialDestinations,
                                validator, g1, piece, from, gs)
        g3 == MovesForPieceFrom(first + 2 * stride, stride \div 8, potentialDestinations,
                                validator, g2, piece, from, gs)
        g4 == MovesForPieceFrom(first + 3 * stride, stride \div 8, potentialDestinations,
                                validator, g3, piece, from, gs)
        g5 == MovesForPieceFrom(first + 4 * stride, stride \div 8, potentialDestinations,
                                validator, g4, piece, from, gs)
        g6 == MovesForPieceFrom(first + 5 * stride, stride \div 8, potentialDestinations,
                                validator, g5, piece, from, gs)
        g7 == MovesForPieceFrom(first + 6 * stride, stride \div 8, potentialDestinations,
                                validator, g6, piece, from, gs)
        g8 == MovesForPieceFrom(first + 7 * stride, stride \div 8, potentialDestinations,
                                validator, g7, piece, from, gs)
    IN <<g1, g2, g3, g4, g5, g6, g7, g8>>[8]

\* Game._generateMovesForPiece; the validator is fixed by the piece as it is on entry.
\* A piece has at most 27 potential destinations.
generateMovesForPiece(g, piece, from, gs) ==
  MovesForPieceFrom(1, 8, getPotentialMoves(g.w.h[piece], from), g.w.h[piece], g,
                    piece, from, gs)

RECURSIVE SquaresAttackedFrom(_, _, _, _, _, _)
\* the loop over squaresToCheck in canCastle: stops at the first attacked square
SquaresAttackedFrom(i, cols, w, row, opponentColor, cache) ==
  IF i > Len(cols) THEN [result |-> FALSE, cache |-> cache]
  ELSE LET Rest(a) ==
             IF a.result THEN a
             ELSE SquaresAttackedFrom(i + 1, cols, w, row, opponentColor, a.cache)
       IN Rest(isAttackedDuringSim(w, Coord(row, cols[i]), opponentColor, cache))

\* CastlingHandler.canCastle with isAttackedDuringSim as its callback; king is a reference
canCastle(w, king, from, to, cache) ==
  LET no == [valid |-> FALSE, move |-> NoMove, cache |-> cache]
      row == from.row
      isKingside == to.col > from.col
      correctKingCol == IF isKingside THEN kingsideKingCol ELSE queensideKingCol
      rookCol == IF isKingside THEN kingsideRookFromCol ELSE queensideRookFromCol
      rook == Obj(w, w.b[row][rookCol])
      pathCols == IF isKingside THEN {5, 6} ELSE {1, 2, 3}
      opponentColor == IF w.h[king].color = "white" THEN "black" ELSE "white"
      squaresToCheck == IF isKingside THEN <<4, 5, 6>> ELSE <<2, 3, 4>>
  IN IF w.h[king].hasMoved THEN no
     ELSE IF to.row # row \/ to.col # correctKingCol THEN no
     ELSE IF rook = NoPiece \/ rook.type # "rook" \/ rook.color # w.h[king].color
             \/ rook.hasMoved THEN no
     ELSE IF \E col \in pathCols : w.b[row][col] # 0 THEN no
     ELSE LET Answer(a) ==
                IF a.result THEN [no EXCEPT !.cache = a.cache]
                ELSE [valid |-> TRUE,
                      move |-> MoveRef(from, Coord(row, correctKingCol), king, 0, FALSE,
                                 IF isKingside THEN "kingside" ELSE "queenside", "none"),
                      cache |-> a.cache]
          IN Answer(SquaresAttackedFrom(1, squaresToCheck, w, row, opponentColor, cache))

\* step 1 of _generateSpecialMoves: castling
CastlingMoves(g, color, gs) ==
  LET kingPos == KingPosOf(gs, color)
      king == RefAt(g.w, kingPos)
      Queenside(moves, qs) ==
        [w |-> g.w, cache |-> qs.cache,
         moves |-> IF qs.valid THEN Append(moves, qs.move) ELSE moves]
      Kingside(ks) ==
        Queenside(IF ks.valid THEN Append(g.moves, ks.move) ELSE g.moves,
                  canCastle(g.w, king, kingPos, Coord(kingPos.row, 2), ks.cache))
  IN IF king # 0 /\ g.w.h[king].type = "king"
     THEN Kingside(canCastle(g.w, king, kingPos, Coord(kingPos.row, 6), g.cache))
     ELSE g

\* one iteration of the loop over the two squares beside the victim pawn;
\* lastPiece is the reference of the object last.piece
EnPassantFrom(g, from, color, gs, lastPiece) ==
  LET last == gs.lastMove
      attacker == IF from.col >= 0 /\ from.col <= 7 THEN RefAt(g.w, from) ELSE 0
  IN IF attacker = 0 \/ g.w.h[attacker].type # "pawn" \/ g.w.h[attacker].color # color
     THEN g
     ELSE
       LET dir == IF color = "white" THEN 1 ELSE -1
           to == Coord(from.row + dir, last.to.col)
           move == MoveRef(from, to, attacker, lastPiece, TRUE, "none", "none")
       IN IF ~isEnPassantMove(g.w.h[attacker], g.w, from, to, last) THEN g
          ELSE LET Push(r) ==
                     [w |-> r.w, cache |-> r.cache,
                      moves |-> IF r.isCheck THEN g.moves ELSE Append(g.moves, move)]
               IN Push(wouldLeaveKingInCheck(g.w, move, KingPosOf(gs, color), g.cache))

\* step 2 of _generateSpecialMoves: en passant
EnPassantMoves(g, color, gs) ==
  LET last == gs.lastMove
  IN IF last # NoMove /\ last.piece.type = "pawn" /\ Abs(last.to.row - last.from.row) = 2
     THEN LET lastPiece == Len(g.w.h) + 1
          IN EnPassantFrom(
               EnPassantFrom([g EXCEPT !.w = Alloc(g.w, last.piece)],
                             Coord(last.to.row, last.to.col - 1), color, gs, lastPiece),
               Coord(last.to.row, last.to.col + 1), color, gs, lastPiece)
     ELSE g

\* Game._generateSpecialMoves
generateSpecialMoves(g, color, gs) == EnPassantMoves(CastlingMoves(g, color, gs), color, gs)

RECURSIVE PieceMovesFrom(_, _, _, _, _)
\* the iterations of the loops of generateAllLegalMoves over r and c for the squares
\* first..first + 8 * stride - 1, numbered 8r + c, in order (one square when stride = 0):
\* the states of the pass after each eighth of them, and of these the last
PieceMovesFrom(first, stride, g, color, gs) ==
  IF stride = 0
  THEN IF g.w.b[first \div 8][first % 8] = 0
          \/ g.w.h[g.w.b[first \div 8][first % 8]].color # color
       THEN g
       ELSE generateMovesForPiece(g, g.w.b[first \div 8][first % 8],
                                  Coord(first \div 8, first % 8), gs)
  ELSE
    LET g1 == PieceMovesFrom(first, stride \div 8, g, color, gs)
        g2 == PieceMovesFrom(first + stride, stride \div 8, g1, color, gs)
        g3 == PieceMovesFrom(first + 2 * stride, stride \div 8, g2, color, gs)
        g4 == PieceMovesFrom(first + 3 * stride, stride \div 8, g3, color, gs)
        g5 == PieceMovesFrom(first + 4 * stride, stride \div 8, g4, color, gs)
        g6 == PieceMovesFrom(first + 5 * stride, stride \div 8, g5, color, gs)
        g7 == PieceMovesFrom(first + 6 * stride, stride \div 8, g6, color, gs)
        g8 == PieceMovesFrom(first + 7 * stride, stride \div 8, g7, color, gs)
    IN <<g1, g2, g3, g4, g5, g6, g7, g8>>[8]

\* Game.generateAllLegalMoves(board, color, gameState): the pass's final g
generateAllLegalMoves(w, color, gs) ==
  generateSpecialMoves(
    PieceMovesFrom(0, 8, [w |-> w, cache |-> EmptyCache, moves |-> <<>>], color, gs),
    color, gs)

\* the Move[] the caller receives, read after the pass
MovesRead(g) == [i \in 1..Len(g.moves) |-> MoveValue(g.w, g.moves[i])]

(***************************************************************************)
(* FenGenerator: the position-identity key.  A string is modelled as the   *)
(* sequence of its characters; the key as the tuple of its four fields     *)
(* (the fields contain no blank, so joining them with blanks loses nothing).*)
(***************************************************************************)
Digits == <<"0", "1", "2", "3", "4", "5", "6", "7", "8">>

Files == <<"a", "b", "c", "d", "e", "f", "g", "h">>

\* piece.type.charAt(0).toUpperCase(), 'N' for the knight
UpperChar(type) ==
  CASE type = "pawn" -> "P" [] type = "knight" -> "N" [] type = "bishop" -> "B"
    [] type = "rook" -> "R" [] type = "queen" -> "Q" [] type = "king" -> "K"

LowerChar(type) ==
  CASE type = "pawn" -> "p" [] type = "knight" -> "n" [] type = "bishop" -> "b"
    [] type = "rook" -> "r" [] type = "queen" -> "q" [] type = "king" -> "k"

RECURSIVE RowFen(_, _, _, _)
\* the inner loop of getPiecePlacementFen for one row, from column col on
RowFen(board, row, col, emptySquares) ==
  IF col > 7 THEN (IF emptySquares > 0 THEN <<Digits[emptySquares + 1]>> ELSE <<>>)
  ELSE LET piece == board[row][col]
       IN IF piece # NoPiece
          THEN (IF emptySquares > 0 THEN <<Digits[emptySquares + 1]>> ELSE <<>>)
               \o <<IF piece.color = "white" THEN UpperChar(piece.type)
                    ELSE LowerChar(piece.type)>>
               \o RowFen(board, row, col + 1, 0)
          ELSE RowFen(board, row, col + 1, emptySquares + 1)

getPiecePlacementFen(board) ==
  RowFen(board, 7, 0, 0) \o <<"/">> \o RowFen(board, 6, 0, 0) \o <<"/">>
  \o RowFen(board, 5, 0, 0) \o <<"/">> \o RowFen(board, 4, 0, 0) \o <<"/">>
  \o RowFen(board, 3, 0, 0) \o <<"/">> \o RowFen(board, 2, 0, 0) \o <<"/">>
  \o RowFen(board, 1, 0, 0) \o <<"/">> \o RowFen(board, 0, 0, 0)

\* getCastlingFen looking at the king's hasMoved flag only
getCastlingFenKingOnly(board) ==
  LET Right(rank, rookCol) ==
        /\ board[rank][4].type = "king" /\ ~board[rank][4].hasMoved
        /\ board[rank][rookCol].type = "rook"
      fen == (IF Right(pieceRankWhite, 7) THEN <<"K">> ELSE <<>>)
             \o (IF Right(pieceRankWhite, 0) THEN <<"Q">> ELSE <<>>)
             \o (IF Right(pieceRankBlack, 7) THEN <<"k">> ELSE <<>>)
             \o (IF Right(pieceRankBlack, 0) THEN <<"q">> ELSE <<>>)
  IN IF fen = <<>> THEN <<"-">> ELSE fen

getCastlingFen(board) ==
  LET Right(rank, rookCol) ==
        /\ board[rank][4].type = "king" /\ ~board[rank][4].hasMoved
        /\ board[rank][rookCol].type = "rook" /\ ~board[rank][rookCol].hasMoved
      fen == (IF Right(pieceRankWhite, 7) THEN <<"K">> ELSE <<>>)
             \o (IF Right(pieceRankWhite, 0) THEN <<"Q">> ELSE <<>>)
             \o (IF Right(pieceRankBlack, 7) THEN <<"k">> ELSE <<>>)
             \o (IF Right(pieceRankBlack, 0) THEN <<"q">> ELSE <<>>)
  IN IF fen = <<>> THEN <<"-">> ELSE fen

getEnPassantFen(gs) ==
  LET lastMove == gs.lastMove
  IN IF lastMove = NoMove \/ lastMove.piece.type # "pawn"
        \/ Abs(lastMove.to.row - lastMove.from.row) # 2
     THEN <<"-">>
     ELSE <<Files[lastMove.from.col + 1],
            IF lastMove.piece.color = "white" THEN "3" ELSE "6">>

\* FenGenerator.getPositionKey
getPositionKey(board, gs) ==
  <<getPiecePlacementFen(board),
    IF gs.currentTurn = "white" THEN "w" ELSE "b",
    getCastlingFen(board),
    getEnPassantFen(gs)>>

(***************************************************************************)
(* GameState: a record gs with the fields of the class                     *)
(***************************************************************************)
EmptyMap == [k \in {} |-> 0]

MapGet(m, k, default) == IF k \in DOMAIN m THEN m[k] ELSE default

MapSet(m, k, v) == (k :> v) @@ m

NewGameState ==
  [currentTurn |-> "white", moveHistory |-> <<>>, lastMove |-> NoMove,
   whiteKingPos |-> Coord(0, 4), blackKingPos |-> Coord(7, 4),
   isCheck |-> FALSE, isCheckmate |-> FALSE, isStalemate |-> FALSE, isDraw |-> FALSE,
   allLegalMovesForCurrentTurn |-> <<>>,
   gameSnapshots |-> <<>>, currentSnapshotIndex |-> -1,
   halfMoveClock |-> 0, positionHistory |-> EmptyMap]

\* GameState.updateStateAfterMove
updateStateAfterMove(gs, move, board) ==
  LET Count(clocked, positionKey) ==
        [clocked EXCEPT !.positionHistory =
           MapSet(@, positionKey, MapGet(clocked.positionHistory, positionKey, 0) + 1)]
      Clocked(clocked) == Count(clocked, getPositionKey(board, clocked))
  IN Clocked([gs EXCEPT !.halfMoveClock =
                IF move.piece.type = "pawn" \/ move.captured # NoPiece THEN 0 ELSE @ + 1])

\* adding a move that records it as lastMove only when a pawn made it
addMoveLastPawn(gs, move) ==
  LET g1 == [gs EXCEPT !.moveHistory = Append(@, move),
                       !.lastMove = IF move.piece.type = "pawn" THEN move ELSE @,
                       !.currentTurn = IF @ = "white" THEN "black" ELSE "white"]
  IN IF move.piece.type = "king"
     THEN IF move.piece.color = "white"
          THEN [g1 EXCEPT !.whiteKingPos = move.to]
          ELSE [g1 EXCEPT !.blackKingPos = move.to]
     ELSE g1

\* GameState.addMove
addMove(gs, move) ==
  LET g1 == [gs EXCEPT !.moveHistory = Append(@, move),
                       !.lastMove = move,
                       !.currentTurn = IF @ = "white" THEN "black" ELSE "white"]
  IN IF move.piece.type = "king"
     THEN IF move.piece.color = "white"
          THEN [g1 EXCEPT !.whiteKingPos = move.to]
          ELSE [g1 EXCEPT !.blackKingPos = move.to]
     ELSE g1

\* the GameSnapshot object built by saveSnapshot; gameSnapshots[i] of the code is
\* gameSnapshots[i + 1] here
SnapshotOf(gs, board) ==
  [board |-> board, currentTurn |-> gs.currentTurn, moveHistory |-> gs.moveHistory,
   lastMove |-> gs.lastMove, isCheck |-> gs.isCheck, isCheckmate |-> gs.isCheckmate,
   isStalemate |-> gs.isStalemate, isDraw |-> gs.isDraw,
   whiteKingPos |-> gs.whiteKingPos, blackKingPos |-> gs.blackKingPos,
   halfMoveClock |-> gs.halfMoveClock, positionHistory |-> gs.positionHistory]

\* saveSnapshot pushing onto the whole stack, the snapshots beyond the cursor kept
saveSnapshotKeepTail(gs, board) ==
  [gs EXCEPT !.gameSnapshots = Append(gs.gameSnapshots, SnapshotOf(gs, board)),
             !.currentSnapshotIndex = @ + 1]

\* GameState.saveSnapshot
saveSnapshot(gs, board) ==
  LET kept == IF gs.currentSnapshotIndex < Len(gs.gameSnapshots) - 1
              THEN SubSeq(gs.gameSnapshots, 1, gs.currentSnapshotIndex + 1)
              ELSE gs.gameSnapshots
  IN [gs EXCEPT !.gameSnapshots = Append(kept, SnapshotOf(gs, board)),
                !.currentSnapshotIndex = @ + 1]

\* restoreFromSnapshot leaving lastMove as it is
restoreFromSnapshotKeepLastMove(gs, snapshot) ==
  [gs EXCEPT !.currentTurn = snapshot.currentTurn,
             !.moveHistory = snapshot.moveHistory,
             !.isCheck = snapshot.isCheck,
             !.isCheckmate = snapshot.isCheckmate,
             !.isStalemate = snapshot.isStalemate,
             !.isDraw = snapshot.isDraw,
             !.whiteKingPos = snapshot.whiteKingPos,
             !.blackKingPos = snapshot.blackKingPos,
             !.halfMoveClock = snapshot.halfMoveClock,
             !.positionHistory = snapshot.positionHistory]

\* restoreFromSnapshot leaving positionHistory as it is
restoreFromSnapshotKeepPositions(gs, snapshot) ==
  [gs EXCEPT !.currentTurn = snapshot.currentTurn,
             !.moveHistory = snapshot.moveHistory,
             !.lastMove = snapshot.lastMove,
             !.isCheck = snapshot.isCheck,
             !.isCheckmate = snapshot.isCheckmate,
             !.isStalemate = snapshot.isStalemate,
             !.isDraw = snapshot.isDraw,
             !.whiteKingPos = snapshot.whiteKingPos,
             !.blackKingPos = snapshot.blackKingPos,
             !.halfMoveClock = snapshot.halfMoveClock]

\* GameState.restoreFromSnapshot
restoreFromSnapshot(gs, snapshot) ==
  [gs EXCEPT !.currentTurn = snapshot.currentTurn,
             !.moveHistory = snapshot.moveHistory,
             !.lastMove = snapshot.lastMove,
             !.isCheck = snapshot.isCheck,
             !.isCheckmate = snapshot.isCheckmate,
             !.isStalemate = snapshot.isStalemate,
             !.isDraw = snapshot.isDraw,
             !.whiteKingPos = snapshot.whiteKingPos,
             !.blackKingPos = snapshot.blackKingPos,
             !.halfMoveClock = snapshot.halfMoveClock,
             !.positionHistory = snapshot.positionHistory]

\* undo moving the cursor before it tests it
GameStateUndoCursorFirst(gs) ==
  LET g1 == [gs EXCEPT !.currentSnapshotIndex = @ - 1]
  IN IF gs.currentSnapshotIndex <= 0 THEN [ok |-> FALSE, gs |-> g1]
     ELSE [ok |-> TRUE,
           gs |-> restoreFromSnapshot(g1, g1.gameSnapshots[g1.currentSnapshotIndex + 1])]

\* GameState.undo: [ok |-> FALSE] stands for the null result
GameStateUndo(gs) ==
  IF gs.currentSnapshotIndex <= 0 THEN [ok |-> FALSE, gs |-> gs]
  ELSE LET g1 == [gs EXCEPT !.currentSnapshotIndex = @ - 1]
       IN [ok |-> TRUE,
           gs |-> restoreFromSnapshot(g1, g1.gameSnapshots[g1.currentSnapshotIndex + 1])]

\* GameState.redo
GameStateRedo(gs) ==
  IF gs.currentSnapshotIndex >= Len(gs.gameSnapshots) - 1 THEN [ok |-> FALSE, gs |-> gs]
  ELSE LET g1 == [gs EXCEPT !.currentSnapshotIndex = @ + 1]
       IN [ok |-> TRUE,
           gs |-> restoreFromSnapshot(g1, g1.gameSnapshots[g1.currentSnapshotIndex + 1])]

(***************************************************************************)
(* GameEndDetection and the persistent attack cache of Game                *)
(***************************************************************************)
\* isSquareAttacked with a cache key of square and colour, the position left out
isSquareAttackedBySquare(cache, board, position, attackingColor, gs) ==
  LET Store(cacheKey, result) ==
        [result |-> result, cache |-> MapSet(cache, cacheKey, result)]
      Keyed(cacheKey) ==
        IF cacheKey \in DOMAIN cache
        THEN [result |-> cache[cacheKey], cache |-> cache]
        ELSE Store(cacheKey,
                   calculateIsSquareAttacked(Load(board), position, attackingColor))
  IN Keyed(<<<<>>, position.row, position.col, attackingColor>>)

\* Game.isSquareAttacked: the answer and the attackCache it leaves
isSquareAttacked(cache, board, position, attackingColor, gs) ==
  LET Store(cacheKey, result) ==
        [result |-> result, cache |-> MapSet(cache, cacheKey, result)]
      Keyed(cacheKey) ==
        IF cacheKey \in DOMAIN cache
        THEN [result |-> cache[cacheKey], cache |-> cache]
        ELSE Store(cacheKey,
                   calculateIsSquareAttacked(Load(board), position, attackingColor))
  IN Keyed(<<getPositionKey(board, gs), position.row, position.col, attackingColor>>)

\* GameEndDetection.isInCheck
isInCheck(cache, board, color, gs) ==
  isSquareAttacked(cache, board, KingPosOf(gs, color), Opponent(color), gs)

\* BoardUtils.getPiecesByColor: the squares, in row-major order, as numbers 8r+c
getPiecesByColor(board, color) ==
  LET Own(r, c) == board[r][c] # NoPiece /\ board[r][c].color = color
  IN OccupiedSquares(Own)

\* GameEndDetection.isInsufficientMaterial
isInsufficientMaterial(board) ==
  LET TypeAt(k) == board[k \div 8][k % 8].type
      Parity(k) == ((k \div 8) + (k % 8)) % 2
      Insufficient(nonKingPieces) ==
        IF Len(nonKingPieces) = 0 THEN TRUE
        ELSE IF Len(nonKingPieces) = 1
             THEN TypeAt(nonKingPieces[1]) = "bishop" \/ TypeAt(nonKingPieces[1]) = "knight"
        ELSE IF /\ Len(nonKingPieces) = 2
                /\ TypeAt(nonKingPieces[1]) = "bishop"
                /\ TypeAt(nonKingPieces[2]) = "bishop"
             THEN Parity(nonKingPieces[1]) = Parity(nonKingPieces[2])
        ELSE FALSE
  IN Insufficient(SelectSeq(getPiecesByColor(board, "white")
                              \o getPiecesByColor(board, "black"),
                            LAMBDA k : board[k \div 8][k % 8].type # "king"))

\* isDrawByRule declaring the draw only beyond the hundredth quiet half-move
isDrawByRuleAfterHundred(board, gs) ==
  IF gs.halfMoveClock > 100 THEN TRUE
  ELSE IF MapGet(gs.positionHistory, getPositionKey(board, gs), 0) >= 3 THEN TRUE
  ELSE isInsufficientMaterial(board)

\* isDrawByRule declaring the repetition draw only beyond the third occurrence
isDrawByRuleAfterThree(board, gs) ==
  IF gs.halfMoveClock >= 100 THEN TRUE
  ELSE IF MapGet(gs.positionHistory, getPositionKey(board, gs), 0) > 3 THEN TRUE
  ELSE isInsufficientMaterial(board)

\* GameEndDetection.isDrawByRule
isDrawByRule(board, gs) ==
  IF gs.halfMoveClock >= 100 THEN TRUE
  ELSE IF MapGet(gs.positionHistory, getPositionKey(board, gs), 0) >= 3 THEN TRUE
  ELSE isInsufficientMaterial(board)

(***************************************************************************)
(* MoveNotation: a notation string as the sequence of its parts            *)
(***************************************************************************)
\* MoveNotation.getDisambiguation
getDisambiguation(move, boardBeforeMove) ==
  LET Ambiguous(w) ==
        {k \in 0..63 :
           /\ ~(k \div 8 = move.from.row /\ k % 8 = move.from.col)
           /\ boardBeforeMove[k \div 8][k % 8] # NoPiece
           /\ boardBeforeMove[k \div 8][k % 8].type = move.piece.type
           /\ boardBeforeMove[k \div 8][k % 8].color = move.piece.color
           /\ isValidMove(w, boardBeforeMove[k \div 8][k % 8],
                          Coord(k \div 8, k % 8), move.to)}
      Disambiguate(ambiguousPieces) ==
        IF ambiguousPieces = {} THEN <<>>
        ELSE IF ~(\E k \in ambiguousPieces : k % 8 = move.from.col)
             THEN <<Files[move.from.col + 1]>>
        ELSE IF ~(\E k \in ambiguousPieces : k \div 8 = move.from.row)
             THEN <<Digits[move.from.row + 2]>>
        ELSE <<Files[move.from.col + 1], Digits[move.from.row + 2]>>
  IN Disambiguate(Ambiguous(Load(boardBeforeMove)))

\* MoveNotation.getMoveNotation
getMoveNotation(move, boardBeforeMove, check, checkmate) ==
  LET suffix == IF checkmate THEN <<"#">> ELSE IF check THEN <<"+">> ELSE <<>>
      piece == move.piece
      isCapture == boardBeforeMove[move.to.row][move.to.col] # NoPiece \/ move.isEnPassant
  IN IF move.isCastling # "none"
     THEN <<IF move.isCastling = "kingside" THEN "O-O" ELSE "O-O-O">> \o suffix
     ELSE (IF piece.type # "pawn"
           THEN <<UpperChar(piece.type)>> \o getDisambiguation(move, boardBeforeMove)
           ELSE <<>>)
          \o (IF isCapture
              THEN (IF piece.type = "pawn" THEN <<Files[move.from.col + 1]>> ELSE <<>>)
                   \o <<"x">>
              ELSE <<>>)
          \o <<Files[move.to.col + 1], Digits[move.to.row + 2]>>
          \o (IF move.promotion # "none" THEN <<"=", UpperChar(move.promotion)>> ELSE <<>>)
          \o suffix

(***************************************************************************)
(* ChessGameController: a record c with the fields of the class, and       *)
(* attackCache, the persistent cache of its Game                           *)
(***************************************************************************)
\* the move object as MoveExecutor receives it from the controller, beside the board
WithMove(board, move) ==
  LET WithObjects(w0) ==
        [w |-> IF move.captured = NoPiece THEN Alloc(w0, move.piece)
               ELSE Alloc(Alloc(w0, move.piece), move.captured),
         move |-> MoveRef(move.from, move.to, Len(w0.h) + 1,
                          IF move.captured = NoPiece THEN 0 ELSE Len(w0.h) + 2,
                          move.isEnPassant, move.isCastling, move.promotion)]
  IN WithObjects(Load(board))

\* the board MoveExecutor.executeMove returns for a board and move of the controller
ExecuteMoveOn(board, move) ==
  LET Execute(a) == Deref(executeMove(a.w, a.move)) IN Execute(WithMove(board, move))

\* updateLegalMoves with a generation pass whose cache starts from the answers of the
\* persistent cache, keyed by square and colour
updateLegalMovesSeeded(c) ==
  LET squares == {<<q[2], q[3], q[4]>> : q \in DOMAIN c.attackCache}
      seed == [k \in squares |->
                 \E q \in DOMAIN c.attackCache :
                    <<q[2], q[3], q[4]>> = k /\ c.attackCache[q]]
      boardForValidation == cloneBoard(Load(c.currentBoard))
      g == generateSpecialMoves(
             PieceMovesFrom(0, 8, [w |-> boardForValidation, cache |-> seed,
                                   moves |-> <<>>],
                            c.gameState.currentTurn, c.gameState),
             c.gameState.currentTurn, c.gameState)
  IN [c EXCEPT !.gameState.allLegalMovesForCurrentTurn = MovesRead(g)]

\* ChessGameController.updateLegalMoves
updateLegalMoves(c) ==
  LET boardForValidation == cloneBoard(Load(c.currentBoard))
      g == generateAllLegalMoves(boardForValidation, c.gameState.currentTurn, c.gameState)
  IN [c EXCEPT !.gameState.allLegalMovesForCurrentTurn = MovesRead(g)]

\* checkGameEnd flagging mate when the side in check has moves left
checkGameEndMateWithMoves(c) ==
  LET gs == c.gameState
      hasLegal == Len(gs.allLegalMovesForCurrentTurn) > 0
      Draw(flagged, cache) ==
        [c EXCEPT !.gameState =
                    [flagged EXCEPT !.isDraw =
                       flagged.isStalemate \/ isDrawByRule(c.currentBoard, flagged)],
                  !.attackCache = cache]
      Flags(chk) ==
        Draw([gs EXCEPT !.isCheck = chk.result,
                        !.isCheckmate = chk.result /\ hasLegal,
                        !.isStalemate = ~chk.result /\ ~hasLegal],
             chk.cache)
  IN Flags(isInCheck(c.attackCache, c.currentBoard, gs.currentTurn, gs))

\* ChessGameController.checkGameEnd
checkGameEnd(c) ==
  LET gs == c.gameState
      hasLegal == Len(gs.allLegalMovesForCurrentTurn) > 0
      Draw(flagged, cache) ==
        [c EXCEPT !.gameState =
                    [flagged EXCEPT !.isDraw =
                       flagged.isStalemate \/ isDrawByRule(c.currentBoard, flagged)],
                  !.attackCache = cache]
      Flags(chk) ==
        Draw([gs EXCEPT !.isCheck = chk.result,
                        !.isCheckmate = chk.result /\ ~hasLegal,
                        !.isStalemate = ~chk.result /\ ~hasLegal],
             chk.cache)
  IN Flags(isInCheck(c.attackCache, c.currentBoard, gs.currentTurn, gs))

\* ChessGameController.finaliseMove.  Reading gameSnapshots[currentSnapshotIndex - 1]
\* .board with currentSnapshotIndex = 0 throws: the handler ends there.
finaliseMove(c, move) ==
  LET Notate(ended, idx) ==
        IF idx - 1 < 0 THEN ended
        ELSE [ended EXCEPT !.moveList =
                Append(@, getMoveNotation(move, ended.gameState.gameSnapshots[idx].board,
                                          ended.gameState.isCheck,
                                          ended.gameState.isCheckmate))]
      Ended(ended) == Notate(ended, ended.gameState.currentSnapshotIndex)
  IN Ended(checkGameEnd(updateLegalMoves(
       [c EXCEPT !.gameState =
          updateStateAfterMove(addMove(c.gameState, move), move, c.currentBoard)])))

\* ChessGameController.executeMove
controllerExecuteMove(c, move) ==
  LET Finish(placed) ==
        IF needsPromotion(move.piece, move.to)
        THEN [placed EXCEPT !.promotionMove = move]
        ELSE finaliseMove(placed, move)
      KingPos(executed) ==
        Finish(IF move.piece.type = "king"
               THEN IF move.piece.color = "white"
                    THEN [executed EXCEPT !.gameState.whiteKingPos = move.to]
                    ELSE [executed EXCEPT !.gameState.blackKingPos = move.to]
               ELSE executed)
  IN KingPos([c EXCEPT !.gameState = saveSnapshot(c.gameState, c.currentBoard),
                       !.currentBoard = ExecuteMoveOn(c.currentBoard, move)])

\* findMove matching the destination only
findMoveToOnly(c, from, to) ==
  LET moves == c.gameState.allLegalMovesForCurrentTurn
      hits == {i \in 1..Len(moves) : moves[i].to = to}
  IN IF hits = {} THEN NoMove
     ELSE moves[CHOOSE i \in hits : \A j \in hits : i <= j]

\* ChessGameController.findMove: the first match (NoMove for null)
findMove(c, from, to) ==
  LET moves == c.gameState.allLegalMovesForCurrentTurn
      hits == {i \in 1..Len(moves) : moves[i].from = from /\ moves[i].to = to}
  IN IF hits = {} THEN NoMove
     ELSE moves[CHOOSE i \in hits : \A j \in hits : i <= j]

\* ChessGameController.handleSquareClick
handleSquareClick(c, row, col) ==
  LET clickedCoord == Coord(row, col)
      piece == c.currentBoard[row][col]
      own == piece # NoPiece /\ piece.color = c.gameState.currentTurn
  IN IF c.selectedSquare # NoCoord
     THEN IF c.selectedSquare = clickedCoord
          THEN [c EXCEPT !.selectedSquare = NoCoord]
          ELSE LET move == findMove(c, c.selectedSquare, clickedCoord)
               IN IF move # NoMove
                  THEN controllerExecuteMove([c EXCEPT !.selectedSquare = NoCoord], move)
                  ELSE IF own THEN [c EXCEPT !.selectedSquare = clickedCoord]
                       ELSE [c EXCEPT !.selectedSquare = NoCoord]
     ELSE IF own /\ \E i \in 1..Len(c.gameState.allLegalMovesForCurrentTurn) :
                       c.gameState.allLegalMovesForCurrentTurn[i].from = clickedCoord
          THEN [c EXCEPT !.selectedSquare = clickedCoord]
          ELSE c

\* a choice that places the chosen kind and records the move as it was offered
onPromotionPieceSelectedAsOffered(c, pieceType) ==
  IF c.promotionMove = NoMove THEN c
  ELSE LET board == Deref(executePromotion(Load(c.currentBoard), c.promotionMove.to,
                                           pieceType))
       IN finaliseMove([c EXCEPT !.currentBoard = board, !.promotionMove = NoMove],
                       c.promotionMove)

\* ChessGameController.onPromotionPieceSelected
onPromotionPieceSelected(c, pieceType) ==
  IF c.promotionMove = NoMove THEN c
  ELSE LET finalMove == [c.promotionMove EXCEPT !.promotion = pieceType]
           board == Deref(executePromotion(Load(c.currentBoard), finalMove.to, pieceType))
       IN finaliseMove([c EXCEPT !.currentBoard = board, !.promotionMove = NoMove],
                       finalMove)

\* ChessGameController.restoreSnapshot
restoreSnapshot(c, snap) ==
  updateLegalMoves([c EXCEPT !.currentBoard = Deref(cloneBoard(Load(snap.board)))])

\* ChessGameController.undo
controllerUndo(c) ==
  LET u == GameStateUndo(c.gameState)
  IN IF ~u.ok THEN c
     ELSE LET snap == u.gs.gameSnapshots[u.gs.currentSnapshotIndex + 1]
              popped == IF c.moveList = <<>> THEN <<>>
                        ELSE SubSeq(c.moveList, 1, Len(c.moveList) - 1)
          IN restoreSnapshot([c EXCEPT !.gameState = u.gs, !.moveList = popped], snap)

\* ChessGameController.redo
controllerRedo(c) ==
  LET u == GameStateRedo(c.gameState)
  IN IF ~u.ok THEN c
     ELSE LET snap == u.gs.gameSnapshots[u.gs.currentSnapshotIndex + 1]
              redoneMove == u.gs.lastMove
              boardBefore == u.gs.gameSnapshots[u.gs.currentSnapshotIndex].board
              list == IF redoneMove # NoMove
                      THEN Append(c.moveList,
                             getMoveNotation(redoneMove, boardBefore,
                                             snap.isCheck, snap.isCheckmate))
                      ELSE c.moveList
          IN restoreSnapshot([c EXCEPT !.gameState = u.gs, !.moveList = list], snap)

\* the constructor: field initialisers, then initGame
NewController ==
  LET board == createInitialBoard
      startKey == getPositionKey(board, NewGameState)
      g1 == [NewGameState EXCEPT !.positionHistory = MapSet(@, startKey, 1)]
      c0 == [currentBoard |-> board, selectedSquare |-> NoCoord, promotionMove |-> NoMove,
             moveList |-> <<>>, gameState |-> saveSnapshot(g1, board),
             attackCache |-> EmptyMap]
  IN updateLegalMoves(c0)

(***************************************************************************)
(* The running program: the controller and the inputs it receives          *)
(***************************************************************************)
\* call is the last call made on a MoveExecutor that is driven directly, as the unit
\* tests of the class drive it: op the method ("none" before the first call), w the
\* world after the call with the input board as its board, before the world before the
\* call, out the grid executeMove returned (EmptyGrid before a commit), outBoard the
\* value that grid had when it was returned, moves the moves the board offers, move
\* the move passed, kingPos and isCheck the king square passed and the answer, calls
\* the number of calls made so far.  keys is the number of Ctrl+Z and Ctrl+Y pressed,
\* choice the piece kind last chosen in the promotion dialog ("none" before the first).
VARIABLES currentBoard, selectedSquare, promotionMove, moveList, gameState, attackCache,
          call, keys, choice

vars ==
  <<currentBoard, selectedSquare, promotionMove, moveList, gameState, attackCache, call,
    keys, choice>>

\* the controller object
Ctrl ==
  [currentBoard |-> currentBoard, selectedSquare |-> selectedSquare,
   promotionMove |-> promotionMove, moveList |-> moveList, gameState |-> gameState,
   attackCache |-> attackCache]

Becomes(c) ==
  /\ currentBoard' = c.currentBoard
  /\ selectedSquare' = c.selectedSquare
  /\ promotionMove' = c.promotionMove
  /\ moveList' = c.moveList
  /\ gameState' = c.gameState
  /\ attackCache' = c.attackCache
  /\ call' = call

\* no MoveExecutor is driven directly
NoCall ==
  [op |-> "none", w |-> EmptyWorld, before |-> EmptyWorld, out |-> EmptyGrid,
   outBoard |-> EmptyGrid, moves |-> <<>>, move |-> NoMove, kingPos |-> NoCoord,
   isCheck |-> FALSE, calls |-> 0]

\* the controller is c
Constructed(c) ==
  /\ currentBoard = c.currentBoard
  /\ selectedSquare = c.selectedSquare
  /\ promotionMove = c.promotionMove
  /\ moveList = c.moveList
  /\ gameState = c.gameState
  /\ attackCache = c.attackCache

Init == call = NoCall /\ keys = 0 /\ choice = "none" /\ Constructed(NewController)

\* a click on one of the given squares; while the promotion dialog is open the view
\* routes clicks to the dialog (Board.handleClick).  maxPly bounds the snapshot stack.
HandleSquareClick(squares, maxPly) ==
  \E sq \in squares :
    /\ promotionMove = NoMove
    /\ gameState.currentSnapshotIndex < maxPly
    /\ Becomes(handleSquareClick(Ctrl, sq[1], sq[2]))
    /\ keys' = keys
    /\ choice' = choice

\* the choice made in the promotion dialog
OnPromotionPieceSelected ==
  \E i \in 1..Len(PROMOTION_PIECES) :
    /\ promotionMove # NoMove
    /\ Becomes(onPromotionPieceSelected(Ctrl, PROMOTION_PIECES[i]))
    /\ keys' = keys
    /\ choice' = PROMOTION_PIECES[i]

\* Ctrl+Z (KeyboardInputHandler), at most maxKeys keys in all; with nothing to undo
\* the handler returns at once
Undo(maxKeys) ==
  /\ keys < maxKeys
  /\ GameStateUndo(gameState).ok
  /\ Becomes(controllerUndo(Ctrl))
  /\ keys' = keys + 1
  /\ choice' = choice

\* Ctrl+Y; with nothing to redo the handler returns at once
Redo(maxKeys) ==
  /\ keys < maxKeys
  /\ GameStateRedo(gameState).ok
  /\ Becomes(controllerRedo(Ctrl))
  /\ keys' = keys + 1
  /\ choice' = choice

(***************************************************************************)
(* Games around a check by a bishop: d2 d3 e7 e6 h2 h3 h4 f8 b4 e1         *)
(***************************************************************************)
ClickSquares ==
  {<<1, 3>>, <<2, 3>>, <<6, 4>>, <<5, 4>>, <<1, 7>>, <<2, 7>>, <<3, 7>>,
   <<7, 5>>, <<3, 1>>, <<0, 4>>}

MaxPly == 6

Next == HandleSquareClick(ClickSquares, MaxPly)

Spec == Init /\ [][Next]_vars

\* the square of the king of the side that makes move m, after m
KingSquareAfter(m) ==
  IF m.piece.type = "king" THEN m.to ELSE KingPosOf(gameState, m.piece.color)

\* move m of the current list, applied to the current board, leaves the mover's king
\* unattacked
KingSafeAfter(m) ==
  ~calculateIsSquareAttacked(Load(ExecuteMoveOn(currentBoard, m)), KingSquareAfter(m),
                             Opponent(m.piece.color))

\* C1: every move of the list generateAllLegalMoves returned for the position leaves
\* the mover's own king unattacked once it is applied (king-safety soundness).
C1_KingSafetySoundness ==
  \A i \in 1..Len(gameState.allLegalMovesForCurrentTurn) :
    KingSafeAfter(gameState.allLegalMovesForCurrentTurn[i])

\* the number of kings of a colour on the current board
Kings(color) ==
  Cardinality({k \in 0..63 : currentBoard[k \div 8][k % 8].type = "king"
                              /\ currentBoard[k \div 8][k % 8].color = color})

\* C8: in every position reached by moves taken from the generated lists the board holds
\* exactly one white and exactly one black king, and no generated move captures a king.
C8_OneKingEach ==
  /\ Kings("white") = 1
  /\ Kings("black") = 1
  /\ \A i \in 1..Len(gameState.allLegalMovesForCurrentTurn) :
       gameState.allLegalMovesForCurrentTurn[i].captured.type # "king"

(***************************************************************************)
(* Games around a check by a queen: e2 e4 f7 f5 d1 h5                      *)
(***************************************************************************)
MateSquares == {<<1, 4>>, <<3, 4>>, <<6, 5>>, <<4, 5>>, <<0, 3>>, <<4, 7>>, <<6, 6>>, <<5, 6>>, <<6, 4>>, <<4, 4>>}

MaxPlyMate == 5

NextMate == HandleSquareClick(MateSquares, MaxPlyMate)

SpecMate == Init /\ [][NextMate]_vars

\* the square on which the king of a colour stands on a board (NoCoord without one)
KingSquare(board, color) ==
  LET ks == {k \in 0..63 : board[k \div 8][k % 8].type = "king"
                            /\ board[k \div 8][k % 8].color = color}
  IN IF ks = {} THEN NoCoord
     ELSE LET k == CHOOSE x \in ks : TRUE IN Coord(k \div 8, k % 8)

\* the geometrically valid moves of a colour: isValidMove holds and the destination is
\* not occupied by an own piece
GeometricMoves(board, color) ==
  LET w == Load(board)
  IN {ft \in (0..63) \X (0..63) :
        LET from == Coord(ft[1] \div 8, ft[1] % 8)
            to == Coord(ft[2] \div 8, ft[2] % 8)
            piece == board[from.row][from.col]
        IN /\ piece # NoPiece
           /\ piece.color = color
           /\ board[to.row][to.col].color # color
           /\ isValidMove(w, piece, from, to)}

\* the king of the mover is unattacked once the piece on ft[1] stands on ft[2]
LeavesKingSafe(board, color, ft) ==
  LET from == Coord(ft[1] \div 8, ft[1] % 8)
      to == Coord(ft[2] \div 8, ft[2] % 8)
      moved == [board EXCEPT ![to.row][to.col] = board[from.row][from.col],
                             ![from.row][from.col] = NoPiece]
  IN ~calculateIsSquareAttacked(Load(moved), KingSquare(moved, color), Opponent(color))

\* the list of the current turn holds a move between the two squares
Offered(ft) ==
  \E i \in 1..Len(gameState.allLegalMovesForCurrentTurn) :
    LET m == gameState.allLegalMovesForCurrentTurn[i]
    IN 8 * m.from.row + m.from.col = ft[1] /\ 8 * m.to.row + m.to.col = ft[2]

\* C2: every geometrically valid move of the side to move that leaves the mover's own
\* king unattacked is in the list generateAllLegalMoves returned (completeness).
C2_GenerationComplete ==
  \A ft \in GeometricMoves(currentBoard, gameState.currentTurn) :
    LeavesKingSafe(currentBoard, gameState.currentTurn, ft) => Offered(ft)

\* C3: after every finalised move isCheckmate is true exactly when the king of the side
\* to move is attacked and no move of that side leaves its king unattacked.
C3_CheckmateExact ==
  Len(gameState.moveHistory) > 0 =>
    (gameState.isCheckmate <=>
       /\ calculateIsSquareAttacked(Load(currentBoard),
                                    KingSquare(currentBoard, gameState.currentTurn),
                                    Opponent(gameState.currentTurn))
       /\ \A ft \in GeometricMoves(currentBoard, gameState.currentTurn) :
            ~LeavesKingSafe(currentBoard, gameState.currentTurn, ft))

(***************************************************************************)
(* MoveExecutor driven directly on positions taken from games               *)
(***************************************************************************)
RECURSIVE Played(_, _, _, _)
\* the controller c after clicks lo..hi of a game
Played(c, clicks, lo, hi) ==
  IF lo > hi THEN c
  ELSE IF lo = hi THEN handleSquareClick(c, clicks[lo][1], clicks[lo][2])
  ELSE LET first == Played(c, clicks, lo, (lo + hi) \div 2)
       IN IF Computed(first) = first
          THEN Played(first, clicks, (lo + hi) \div 2 + 1, hi)
          ELSE c

\* the controller after a game
After(clicks) == Played(NewController, clicks, 1, Len(clicks))

\* 1.e4 d5: a capture is offered
CaptureGame == <<<<1, 4>>, <<3, 4>>, <<6, 3>>, <<4, 3>>>>

\* 1.d3 e6 2.h3 Bb4+: the side to move is in check
CheckGame == <<<<1, 3>>, <<2, 3>>, <<6, 4>>, <<5, 4>>, <<1, 7>>, <<2, 7>>, <<7, 5>>, <<3, 1>>>>

\* 1.Nf3 Nc6 2.e3 Nb8 3.Be2 Nc6: castling kingside is offered
CastlingGame ==
  <<<<0, 6>>, <<2, 5>>, <<7, 1>>, <<5, 2>>, <<1, 4>>, <<2, 4>>, <<5, 2>>, <<7, 1>>,
    <<0, 5>>, <<1, 4>>, <<7, 1>>, <<5, 2>>>>

\* 1.e4 a6 2.e5 d5: en passant is offered
EnPassantGame ==
  <<<<1, 4>>, <<3, 4>>, <<6, 0>>, <<5, 0>>, <<3, 4>>, <<4, 4>>, <<6, 3>>, <<4, 3>>>>

\* 1.a4 b5 2.axb5 Nf6 3.b6 Ng8 4.bxa7 Nf6: a promotion with capture is offered
PromotionGame ==
  <<<<1, 0>>, <<3, 0>>, <<6, 1>>, <<4, 1>>, <<3, 0>>, <<4, 1>>, <<7, 6>>, <<5, 5>>,
    <<4, 1>>, <<5, 1>>, <<5, 5>>, <<7, 6>>, <<5, 1>>, <<6, 0>>, <<7, 6>>, <<5, 5>>>>

Games == {<<>>, CaptureGame, CheckGame, CastlingGame, EnPassantGame, PromotionGame}

\* the board of the position after a game, with the moves generateAllLegalMoves returned
\* for a copy of it (as updateLegalMoves calls it) and the king square of the side to
\* move: the moves refer to the objects of the pass, the board to its own
CallOn(c) ==
  LET Offering(w, g) ==
        [NoCall EXCEPT !.w = [g.w EXCEPT !.b = w.b, !.g = w.g],
                       !.before = [g.w EXCEPT !.b = w.b, !.g = w.g],
                       !.moves = g.moves,
                       !.kingPos = KingPosOf(c.gameState, c.gameState.currentTurn)]
      OnBoard0(w) ==
        Offering(w, generateAllLegalMoves(cloneBoard(w), c.gameState.currentTurn,
                                          c.gameState))
  IN OnBoard0(Load(c.currentBoard))

InitExecutor ==
  /\ call \in {CallOn(c) : c \in {After(game) : game \in Games}}
  /\ keys = 0
  /\ choice = "none"
  /\ Constructed(NewController)

\* the number of calls made on one board
MaxCalls == 2

\* the input board after a call that returned world r
InputAfter(w, r) == [r EXCEPT !.b = IF r.g = w.g THEN r.b ELSE w.b, !.g = w.g]

\* MoveExecutor.wouldLeaveKingInCheck(board, move, kingPos, isAttacked) with a callback
\* that computes the attack
Probe ==
  \E i \in 1..Len(call.moves) :
    LET Answered(r) ==
          call' = [call EXCEPT !.op = "probe", !.move = call.moves[i],
                               !.before = call.w, !.w = r.w, !.isCheck = r.isCheck,
                               !.calls = @ + 1]
    IN /\ call.calls < MaxCalls
       /\ Answered(wouldLeaveKingInCheck(call.w, call.moves[i], call.kingPos, EmptyCache))
       /\ UNCHANGED <<currentBoard, selectedSquare, promotionMove, moveList, gameState,
                      attackCache, keys, choice>>

\* MoveExecutor.executeMove(board, move), once on each board
Commit ==
  \E i \in 1..Len(call.moves) :
    /\ call.out = EmptyGrid
    /\ call.calls < MaxCalls
    /\ LET Returned(r) ==
             call' = [call EXCEPT !.op = "commit", !.move = call.moves[i],
                                  !.before = call.w, !.w = InputAfter(call.w, r),
                                  !.out = r.b, !.outBoard = Deref(r), !.calls = @ + 1]
       IN Returned(executeMove(call.w, call.moves[i]))
    /\ UNCHANGED <<currentBoard, selectedSquare, promotionMove, moveList, gameState,
                   attackCache, keys, choice>>

NextExecutor == Probe \/ Commit

SpecExecutor == InitExecutor /\ [][NextExecutor]_vars

\* the value of the board executeMove returned, as it is now
OutNow == Deref([call.w EXCEPT !.b = call.out])

\* the piece objects a grid refers to
ObjectsOf(grid) == {grid[r][c] : r \in Rows, c \in Rows} \ {0}

\* C4: wouldLeaveKingInCheck returns with the board it was given as it was before the
\* call: on every square a piece of the same kind, colour and hasMoved flag, or none,
\* for every kind of move and whatever the answer is.
C4_ProbeRestoresBoard ==
  call.op = "probe" => Deref(call.w) = Deref(call.before)

\* a promotion that captures has been probed, and the answer was that the king is safe
C4_PromotionProbed ==
  /\ call.op = "probe"
  /\ call.move.promotion # "none"
  /\ call.move.captured # 0
  /\ ~call.isCheck
  /\ call.w.h # call.before.h

\* C5: the board executeMove returns for a castling move has the king on column 6
\* (kingside) or 2 (queenside) of its home rank and the rook on column 5 or 3, the
\* origin squares of both empty, and both pieces with hasMoved = true.
C5_CastlingCommitted ==
  (call.op = "commit" /\ call.move.isCastling # "none") =>
    LET row == call.move.from.row
        kingside == call.move.isCastling = "kingside"
        king == call.outBoard[row][IF kingside THEN kingsideKingCol ELSE queensideKingCol]
        rook == call.outBoard[row][IF kingside THEN kingsideRookToCol ELSE queensideRookToCol]
    IN /\ king.type = "king" /\ king.hasMoved
       /\ rook.type = "rook" /\ rook.hasMoved
       /\ call.outBoard[row][call.move.from.col] = NoPiece
       /\ call.outBoard[row][IF kingside THEN kingsideRookFromCol
                             ELSE queensideRookFromCol] = NoPiece

\* C6: the board executeMove returns for an en passant move has the capturing pawn on
\* the destination square, its origin square empty, and no piece on the square of the
\* victim (the capturer's origin row, the destination column).
C6_EnPassantCommitted ==
  (call.op = "commit" /\ call.move.isEnPassant) =>
    /\ call.outBoard[call.move.to.row][call.move.to.col].type = "pawn"
    /\ call.outBoard[call.move.to.row][call.move.to.col].color
         = Obj(call.w, call.move.piece).color
    /\ call.outBoard[call.move.from.row][call.move.from.col] = NoPiece
    /\ call.outBoard[call.move.from.row][call.move.to.col] = NoPiece

\* C9: executeMove leaves the board it was given unchanged on every square and in every
\* hasMoved flag, the board it returns shares no piece object with the board it was
\* given, and a later probe on the given board does not change the returned board.
C9_CommitLeavesInput ==
  /\ call.op = "commit" =>
       /\ call.w.b = call.before.b
       /\ Deref(call.w) = Deref(call.before)
  /\ call.out # EmptyGrid =>
       /\ ObjectsOf(call.out) \cap ObjectsOf(call.w.b) = {}
       /\ OutNow = call.outBoard

\* a capture has been committed, and then a move has been probed on the given board
C9_ProbedAfterCommit ==
  /\ call.op = "probe"
  /\ call.out # EmptyGrid
  /\ call.outBoard # Deref(call.w)
  /\ Cardinality(ObjectsOf(call.out)) < Cardinality(ObjectsOf(call.w.b))

(***************************************************************************)
(* Games that go on from 1.Nf3 Nc6 2.e3 Nb8 3.Be2 Nc6, where White may      *)
(* castle kingside: e1 f1 g1 h1 b8 c6, Ctrl+Z and Ctrl+Y                    *)
(***************************************************************************)
CastlingSquares == {<<0, 4>>, <<0, 5>>, <<0, 6>>, <<0, 7>>, <<7, 1>>, <<5, 2>>}

MaxPlyCastling == 10

MaxKeys == 2

InitCastling == call = NoCall /\ keys = 0 /\ choice = "none" /\ Constructed(After(CastlingGame))

NextCastling ==
  \/ HandleSquareClick(CastlingSquares, MaxPlyCastling)
  \/ Undo(MaxKeys)
  \/ Redo(MaxKeys)

SpecCastling == InitCastling /\ [][NextCastling]_vars

\* C7: after every committed move, undo and redo, whiteKingPos and blackKingPos are the
\* squares on which the white and the black king stand on the current board.
C7_KingPosMatchesBoard ==
  /\ gameState.whiteKingPos = KingSquare(currentBoard, "white")
  /\ gameState.blackKingPos = KingSquare(currentBoard, "black")

\* the record of the game holds a move of the king of a colour, or a move of its rook
\* from the corner of a castling side
EverMoved(color, side) ==
  \E i \in 1..Len(gameState.moveHistory) :
    /\ gameState.moveHistory[i].piece.color = color
    /\ \/ gameState.moveHistory[i].piece.type = "king"
       \/ /\ gameState.moveHistory[i].piece.type = "rook"
          /\ gameState.moveHistory[i].from =
               Coord(IF color = "white" THEN pieceRankWhite ELSE pieceRankBlack,
                     IF side = "kingside" THEN kingsideRookFromCol
                     ELSE queensideRookFromCol)

\* the list of the current turn offers castling
CastlingOffered ==
  \E i \in 1..Len(gameState.allLegalMovesForCurrentTurn) :
    gameState.allLegalMovesForCurrentTurn[i].isCastling # "none"

\* C10: the list generateAllLegalMoves returned offers no castling to a side whose king,
\* or whose rook of that castling side, has moved earlier in the game, also when both
\* stand on their original squares again, and also after undo and redo.
C10_NoCastlingAfterMoving ==
  \A i \in 1..Len(gameState.allLegalMovesForCurrentTurn) :
    gameState.allLegalMovesForCurrentTurn[i].isCastling # "none" =>
      ~EverMoved(gameState.allLegalMovesForCurrentTurn[i].piece.color,
                 gameState.allLegalMovesForCurrentTurn[i].isCastling)

\* White is to move with king and rook on e1 and h1 and nothing between them, one of
\* the two has left its square and returned, and castling is not offered
C10_ReturnedHome ==
  /\ gameState.currentTurn = "white"
  /\ currentBoard[0][4].hasMoved \/ currentBoard[0][7].hasMoved
  /\ currentBoard[0][4].type = "king"
  /\ currentBoard[0][7].type = "rook"
  /\ currentBoard[0][5] = NoPiece
  /\ currentBoard[0][6] = NoPiece
  /\ EverMoved("white", "kingside")
  /\ ~CastlingOffered

(***************************************************************************)
(* Games around a check given while castling is geometrically possible     *)
(***************************************************************************)
\* 1.d3 e6 2.Nf3 a6 3.g3 a5 4.Bg2: White may castle kingside, Black may check on b4
CastleCheckOpening ==
  <<<<1, 3>>, <<2, 3>>, <<6, 4>>, <<5, 4>>, <<0, 6>>, <<2, 5>>, <<6, 0>>, <<5, 0>>,
    <<1, 6>>, <<2, 6>>, <<5, 0>>, <<4, 0>>, <<0, 5>>, <<1, 6>>>>

\* f8 b4 e7 e1 f1 g1 b1 d2 c3 a5 a4 e2 e3
CastleCheckSquares ==
  {<<7, 5>>, <<3, 1>>, <<6, 4>>, <<0, 4>>, <<0, 5>>, <<0, 6>>, <<0, 1>>, <<1, 3>>,
   <<2, 2>>, <<4, 0>>, <<3, 0>>, <<1, 4>>, <<2, 4>>}

MaxPlyCastleCheck == 11

InitCastleCheck == call = NoCall /\ keys = 0 /\ choice = "none" /\ Constructed(After(CastleCheckOpening))

NextCastleCheck == HandleSquareClick(CastleCheckSquares, MaxPlyCastleCheck)

SpecCastleCheck == InitCastleCheck /\ [][NextCastleCheck]_vars

\* the columns strictly between the king's column and the rook's corner
BetweenKingAndRook(side) == IF side = "kingside" THEN {5, 6} ELSE {1, 2, 3}

\* the king's start, transit and destination columns
KingPathCols(side) == IF side = "kingside" THEN {4, 5, 6} ELSE {2, 3, 4}

\* C11: every castling move of the list generateAllLegalMoves returned satisfies on the
\* current board: the squares strictly between king and rook are empty, and none of the
\* king's start, transit and destination squares is attacked by the opponent (so
\* castling is never offered while the king is in check).
C11_CastlingPathSafe ==
  \A i \in 1..Len(gameState.allLegalMovesForCurrentTurn) :
    LET m == gameState.allLegalMovesForCurrentTurn[i]
    IN m.isCastling # "none" =>
         /\ \A col \in BetweenKingAndRook(m.isCastling) :
              currentBoard[m.from.row][col] = NoPiece
         /\ \A col \in KingPathCols(m.isCastling) :
              ~calculateIsSquareAttacked(Load(currentBoard), Coord(m.from.row, col),
                                         Opponent(m.piece.color))

(***************************************************************************)
(* Games around an en passant capture                                      *)
(***************************************************************************)
\* 1.e4 a6 2.e5: a white pawn stands on its fifth rank
EnPassantOpening == <<<<1, 4>>, <<3, 4>>, <<6, 0>>, <<5, 0>>, <<3, 4>>, <<4, 4>>>>

\* d7 d5 d6 e5 f7 f5 f6 g1 f3 g8 h6
EnPassantSquares ==
  {<<6, 3>>, <<4, 3>>, <<5, 3>>, <<4, 4>>, <<6, 5>>, <<4, 5>>, <<5, 5>>, <<0, 6>>,
   <<2, 5>>, <<7, 6>>, <<5, 7>>}

MaxPlyEnPassant == 7

InitEnPassant == call = NoCall /\ keys = 0 /\ choice = "none" /\ Constructed(After(EnPassantOpening))

NextEnPassant == HandleSquareClick(EnPassantSquares, MaxPlyEnPassant)

SpecEnPassant == InitEnPassant /\ [][NextEnPassant]_vars

\* move i of the history is the two-square advance of a pawn to the square beside from,
\* in the column of to
AdvanceBeside(i, from, to) ==
  /\ i >= 1
  /\ gameState.moveHistory[i].piece.type = "pawn"
  /\ Abs(gameState.moveHistory[i].to.row - gameState.moveHistory[i].from.row) = 2
  /\ gameState.moveHistory[i].to = Coord(from.row, to.col)

\* the list of the current turn offers an en passant capture
EnPassantOffered ==
  \E i \in 1..Len(gameState.allLegalMovesForCurrentTurn) :
    gameState.allLegalMovesForCurrentTurn[i].isEnPassant

\* C12: an en passant capture is in the list generateAllLegalMoves returned only when
\* the last move of the history is the two-square advance of the pawn to be captured;
\* after any other move it is not offered.
C12_EnPassantOnlyAtOnce ==
  \A i \in 1..Len(gameState.allLegalMovesForCurrentTurn) :
    LET m == gameState.allLegalMovesForCurrentTurn[i]
    IN m.isEnPassant =>
         /\ AdvanceBeside(Len(gameState.moveHistory), m.from, m.to)
         /\ m.captured = gameState.moveHistory[Len(gameState.moveHistory)].piece

\* Black advanced d7-d5 beside the white pawn on e5, each side then made another move,
\* both pawns still stand side by side, and the capture is not offered to White
C12_CaptureLapsed ==
  /\ gameState.currentTurn = "white"
  /\ Len(gameState.moveHistory) >= 3
  /\ AdvanceBeside(Len(gameState.moveHistory) - 2, Coord(4, 4), Coord(5, 3))
  /\ currentBoard[4][4].type = "pawn" /\ currentBoard[4][4].color = "white"
  /\ currentBoard[4][3].type = "pawn" /\ currentBoard[4][3].color = "black"
  /\ currentBoard[5][3] = NoPiece
  /\ ~EnPassantOffered

(***************************************************************************)
(* Games around a promotion                                                *)
(***************************************************************************)
\* a7 b8 f6 g8 e4 e2 e7 e5
PromotionSquares ==
  {<<6, 0>>, <<7, 1>>, <<5, 5>>, <<7, 6>>, <<1, 4>>, <<3, 4>>, <<6, 4>>, <<4, 4>>}

MaxPlyPromotion == 12

InitPromotion ==
  call = NoCall /\ keys = 0 /\ choice = "none" /\ Constructed(After(PromotionGame))

NextPromotion ==
  \/ HandleSquareClick(PromotionSquares, MaxPlyPromotion)
  \/ OnPromotionPieceSelected

SpecPromotion == InitPromotion /\ [][NextPromotion]_vars

\* m is a pawn move to the back rank of the opponent
ToBackRank(m) ==
  /\ m.piece.type = "pawn"
  /\ m.to.row = IF m.piece.color = "white" THEN promotionRankWhite ELSE promotionRankBlack

\* the step executes a pawn move to the back rank: the dialog opens, the history and the
\* turn stay, and no other step adds such a move to the history
PromotionExecuted ==
  /\ (promotionMove = NoMove /\ promotionMove' # NoMove) =>
       /\ ToBackRank(promotionMove')
       /\ currentBoard'[promotionMove'.to.row][promotionMove'.to.col].color
            = promotionMove'.piece.color
       /\ gameState'.moveHistory = gameState.moveHistory
       /\ gameState'.currentTurn = gameState.currentTurn
  /\ (promotionMove = NoMove /\ Len(gameState'.moveHistory) > Len(gameState.moveHistory)) =>
       ~ToBackRank(gameState'.moveHistory[Len(gameState'.moveHistory)])

\* the step is the choice of a kind in the dialog: the destination holds a piece of that
\* kind and of the mover's colour, the history gets the move with that kind, the turn
\* switches
PromotionChosen ==
  (promotionMove # NoMove /\ promotionMove' = NoMove) =>
    /\ currentBoard'[promotionMove.to.row][promotionMove.to.col].type = choice'
    /\ currentBoard'[promotionMove.to.row][promotionMove.to.col].color
         = promotionMove.piece.color
    /\ gameState'.moveHistory
         = Append(gameState.moveHistory, [promotionMove EXCEPT !.promotion = choice'])
    /\ gameState'.currentTurn = Opponent(promotionMove.piece.color)

\* C13: promotion is two-phase: executing a pawn move to the opponent's back rank adds
\* nothing to the history and keeps the turn until onPromotionPieceSelected(k) is called;
\* after that call the destination holds a piece of kind k of the mover's colour and the
\* move recorded in the history carries promotion = k.
C13_PromotionTwoPhase == [][PromotionExecuted /\ PromotionChosen]_vars

\* a knight has been chosen for the pawn that captured on b8
C13_KnightChosen ==
  /\ choice = "knight"
  /\ promotionMove = NoMove
  /\ Len(gameState.moveHistory) > 0
  /\ gameState.moveHistory[Len(gameState.moveHistory)].promotion = "knight"
  /\ gameState.moveHistory[Len(gameState.moveHistory)].captured # NoPiece
  /\ currentBoard[7][1] = Piece("knight", "white", TRUE)
  /\ gameState.currentTurn = "black"

\* the same games with Ctrl+Z and Ctrl+Y, which the keyboard handler also takes while the
\* promotion dialog is open
NextPromotionKeys ==
  \/ HandleSquareClick({<<6, 0>>, <<7, 1>>, <<5, 5>>, <<7, 6>>}, MaxPlyPromotion)
  \/ OnPromotionPieceSelected
  \/ Undo(MaxKeys)
  \/ Redo(MaxKeys)

SpecPromotionKeys == InitPromotion /\ [][NextPromotionKeys]_vars

\* C14: whenever no promotion is pending, after finalised moves with any promotion kind
\* chosen and after undo and redo, no pawn stands on row 0 or row 7 of the current board.
C14_NoPawnOnBackRank ==
  promotionMove = NoMove =>
    \A col \in Rows : currentBoard[0][col].type # "pawn" /\ currentBoard[7][col].type # "pawn"

\* a rook was chosen for the pawn that captured on b8, Black has moved, and Ctrl+Z and
\* Ctrl+Y have brought back the board with the promoted rook
C14_PromotedRookRestored ==
  /\ keys = 2
  /\ choice = "rook"
  /\ promotionMove = NoMove
  /\ currentBoard[7][1] = Piece("rook", "white", TRUE)
  /\ currentBoard[6][0] = NoPiece

(***************************************************************************)
(* Games of knight moves from the initial position                         *)
(***************************************************************************)
\* g1 f3 b1 c3 g8 f6
KnightSquares == {<<0, 6>>, <<2, 5>>, <<0, 1>>, <<2, 2>>, <<7, 6>>, <<5, 5>>}

MaxPlyRepetition == 8

NextRepetition == HandleSquareClick(KnightSquares, MaxPlyRepetition)

SpecRepetition == Init /\ [][NextRepetition]_vars

RECURSIVE PlacementAfter(_)
\* the kind and colour on every square after the first j moves of the history, each
\* move relocating its piece
PlacementAfter(j) ==
  IF j = 0
  THEN [r \in Rows |-> [c \in Rows |->
          <<createInitialBoard[r][c].type, createInitialBoard[r][c].color>>]]
  ELSE LET m == gameState.moveHistory[j]
           before == PlacementAfter(j - 1)
       IN [before EXCEPT ![m.to.row][m.to.col] = before[m.from.row][m.from.col],
                         ![m.from.row][m.from.col] = <<"none", "none">>]

\* how often the current position (placement and side to move) has occurred in the game,
\* the starting position and the current one included
Occurrences ==
  LET n == Len(gameState.moveHistory)
      now == [r \in Rows |-> [c \in Rows |->
                <<currentBoard[r][c].type, currentBoard[r][c].color>>]]
  IN Cardinality({j \in 0..n : j % 2 = n % 2 /\ PlacementAfter(j) = now})

\* C15: in games of knight moves out and back, isDraw is true at the finalised move that
\* produces the third occurrence of a position (the starting position counting as its
\* first occurrence) and false at the first and second occurrences.
C15_ThreefoldRepetition == gameState.isDraw <=> Occurrences >= 3

\* the cycle Nf3 Nf6 Ng1 Ng8 has been played twice: the initial position stands for the
\* third time
C15_CycleReplayed ==
  /\ Len(gameState.moveHistory) = 8
  /\ gameState.moveHistory[8].to = Coord(7, 6)
  /\ gameState.moveHistory[7].to = Coord(0, 6)
  /\ gameState.moveHistory[4].to = Coord(7, 6)
  /\ gameState.moveHistory[3].to = Coord(0, 6)
  /\ Occurrences = 3
  /\ gameState.isDraw

(***************************************************************************)
(* A long game of quiet moves, continued with clicks, undo and redo        *)
(***************************************************************************)
\* 98 half-moves of the knights from g1 and g8, no position occurring twice; the knights
\* end on e4 and f6
FiftyGame ==
  <<<<0, 6>>, <<2, 7>>, <<7, 6>>, <<5, 7>>, <<2, 7>>, <<0, 6>>, <<5, 7>>, <<4, 5>>,
    <<0, 6>>, <<2, 7>>, <<4, 5>>, <<3, 3>>, <<2, 7>>, <<4, 6>>, <<3, 3>>, <<4, 1>>,
    <<4, 6>>, <<2, 5>>, <<4, 1>>, <<3, 3>>, <<2, 5>>, <<4, 4>>, <<3, 3>>, <<5, 2>>,
    <<4, 4>>, <<3, 6>>, <<5, 2>>, <<4, 4>>, <<3, 6>>, <<2, 4>>, <<4, 4>>, <<5, 6>>,
    <<2, 4>>, <<4, 5>>, <<5, 6>>, <<3, 5>>, <<4, 5>>, <<2, 4>>, <<3, 5>>, <<5, 4>>,
    <<2, 4>>, <<4, 5>>, <<5, 4>>, <<4, 2>>, <<4, 5>>, <<3, 3>>, <<4, 2>>, <<5, 0>>,
    <<3, 3>>, <<2, 5>>, <<5, 0>>, <<4, 2>>, <<2, 5>>, <<3, 7>>, <<4, 2>>, <<5, 0>>,
    <<3, 7>>, <<4, 5>>, <<5, 0>>, <<3, 1>>, <<4, 5>>, <<2, 6>>, <<3, 1>>, <<5, 2>>,
    <<2, 6>>, <<4, 7>>, <<5, 2>>, <<3, 3>>, <<4, 7>>, <<2, 6>>, <<3, 3>>, <<4, 1>>,
    <<2, 6>>, <<4, 7>>, <<4, 1>>, <<5, 3>>, <<4, 7>>, <<2, 6>>, <<5, 3>>, <<4, 5>>,
    <<2, 6>>, <<4, 7>>, <<4, 5>>, <<5, 7>>, <<4, 7>>, <<2, 6>>, <<5, 7>>, <<3, 6>>,
    <<2, 6>>, <<4, 7>>, <<3, 6>>, <<4, 4>>, <<4, 7>>, <<2, 6>>, <<4, 4>>, <<3, 2>>,
    <<2, 6>>, <<4, 5>>, <<3, 2>>, <<5, 1>>, <<4, 5>>, <<2, 6>>, <<5, 1>>, <<3, 0>>,
    <<2, 6>>, <<3, 4>>, <<3, 0>>, <<5, 1>>, <<3, 4>>, <<4, 2>>, <<5, 1>>, <<3, 0>>,
    <<4, 2>>, <<2, 3>>, <<3, 0>>, <<5, 1>>, <<2, 3>>, <<3, 5>>, <<5, 1>>, <<3, 0>>,
    <<3, 5>>, <<2, 7>>, <<3, 0>>, <<4, 2>>, <<2, 7>>, <<4, 6>>, <<4, 2>>, <<3, 4>>,
    <<4, 6>>, <<2, 5>>, <<3, 4>>, <<4, 6>>, <<2, 5>>, <<3, 3>>, <<4, 6>>, <<3, 4>>,
    <<3, 3>>, <<2, 1>>, <<3, 4>>, <<4, 6>>, <<2, 1>>, <<4, 2>>, <<4, 6>>, <<3, 4>>,
    <<4, 2>>, <<3, 0>>, <<3, 4>>, <<5, 5>>, <<3, 0>>, <<2, 2>>, <<5, 5>>, <<4, 3>>,
    <<2, 2>>, <<3, 0>>, <<4, 3>>, <<3, 1>>, <<3, 0>>, <<4, 2>>, <<3, 1>>, <<4, 3>>,
    <<4, 2>>, <<3, 4>>, <<4, 3>>, <<3, 1>>, <<3, 4>>, <<4, 6>>, <<3, 1>>, <<5, 0>>,
    <<4, 6>>, <<2, 7>>, <<5, 0>>, <<3, 1>>, <<2, 7>>, <<0, 6>>, <<3, 1>>, <<4, 3>>,
    <<0, 6>>, <<2, 7>>, <<4, 3>>, <<5, 5>>, <<2, 7>>, <<3, 5>>, <<5, 5>>, <<4, 7>>,
    <<3, 5>>, <<2, 7>>, <<4, 7>>, <<3, 5>>, <<2, 7>>, <<4, 6>>, <<3, 5>>, <<4, 7>>,
    <<4, 6>>, <<3, 4>>, <<4, 7>>, <<5, 5>>>>

\* e4 f6 g3 g8 a2 a3 a7 a6
FiftySquares ==
  {<<3, 4>>, <<5, 5>>, <<2, 6>>, <<7, 6>>, <<1, 0>>, <<2, 0>>, <<6, 0>>, <<5, 0>>}

MaxPlyFifty == 101

InitFifty ==
  call = NoCall /\ keys = 0 /\ choice = "none" /\ Constructed(After(FiftyGame))

NextFifty ==
  \/ HandleSquareClick(FiftySquares, MaxPlyFifty)
  \/ Undo(MaxKeys)
  \/ Redo(MaxKeys)

SpecFifty == InitFifty /\ [][NextFifty]_vars

\* the number of moves at the end of the history made since the last pawn move or capture
QuietMoves ==
  LET h == gameState.moveHistory
      loud == {i \in 1..Len(h) : h[i].piece.type = "pawn" \/ h[i].captured # NoPiece}
  IN Len(h) - (CHOOSE i \in {0} \cup loud : \A j \in loud : j <= i)

\* C16: after every finalised move, undo and redo, halfMoveClock is the number of moves at
\* the end of moveHistory made since the last pawn move or capture, and isDraw is true
\* whenever halfMoveClock >= 100.
C16_HalfMoveClock ==
  /\ gameState.halfMoveClock = QuietMoves
  /\ gameState.halfMoveClock >= 100 => gameState.isDraw

\* a hundred quiet half-moves have been played and the draw is due to the clock alone
C16_DrawnByClock ==
  /\ gameState.halfMoveClock = 100
  /\ Len(gameState.moveHistory) = 100
  /\ MapGet(gameState.positionHistory, getPositionKey(currentBoard, gameState), 0) < 3
  /\ ~isInsufficientMaterial(currentBoard)
  /\ gameState.isDraw

(***************************************************************************)
(* isInsufficientMaterial called directly on boards of little material      *)
(***************************************************************************)
\* c3 d3 c6 d6: two squares of either colour
MaterialSquares == {<<2, 2>>, <<2, 3>>, <<5, 2>>, <<5, 3>>}

MaterialKinds == {"bishop", "knight", "rook", "pawn"}

MaxExtraPieces == 3

\* the kings on e1 and e8 and the pieces of a placement on MaterialSquares
MaterialBoard(placed) ==
  [r \in Rows |-> [c \in Rows |->
     IF <<r, c>> \in DOMAIN placed THEN placed[<<r, c>>]
     ELSE IF <<r, c>> = <<0, 4>> THEN Piece("king", "white", TRUE)
     ELSE IF <<r, c>> = <<7, 4>> THEN Piece("king", "black", TRUE)
     ELSE NoPiece]]

MaterialBoards ==
  {MaterialBoard(placed) :
     placed \in UNION {[on -> {Piece(t, c, TRUE) : t \in MaterialKinds,
                                                   c \in {"white", "black"}}] :
                         on \in {sqs \in SUBSET MaterialSquares :
                                   Cardinality(sqs) <= MaxExtraPieces}}}

InitMaterial ==
  /\ call \in {[op |-> "board", board |-> b, insufficient |-> FALSE] : b \in MaterialBoards}
  /\ keys = 0
  /\ choice = "none"
  /\ Constructed(NewController)

IsInsufficientMaterial ==
  /\ call.op = "board"
  /\ call' = [call EXCEPT !.op = "isInsufficientMaterial",
                          !.insufficient = isInsufficientMaterial(call.board)]
  /\ UNCHANGED <<currentBoard, selectedSquare, promotionMove, moveList, gameState,
                 attackCache, keys, choice>>

NextMaterial == IsInsufficientMaterial

SpecMaterial == InitMaterial /\ [][NextMaterial]_vars

\* the squares of a board that hold a piece other than a king
NonKings(board) ==
  {sq \in Rows \X Rows : board[sq[1]][sq[2]].type \notin {"none", "king"}}

\* the material the rule names: king against king; a single bishop or knight; one bishop
\* a side, both on squares of one colour
NamedMaterial(board) ==
  LET At(sq) == board[sq[1]][sq[2]]
      extra == NonKings(board)
  IN \/ extra = {}
     \/ \E sq \in extra : extra = {sq} /\ At(sq).type \in {"bishop", "knight"}
     \/ \E s1, s2 \in extra :
          /\ extra = {s1, s2}
          /\ At(s1).type = "bishop" /\ At(s2).type = "bishop"
          /\ At(s1).color = "white" /\ At(s2).color = "black"
          /\ (s1[1] + s1[2]) % 2 = (s2[1] + s2[2]) % 2

\* C17: isInsufficientMaterial(board) is true exactly for king against king, king and a
\* single bishop or knight against the lone king, and king and bishop against king and
\* bishop (one bishop a side) with both bishops on squares of one colour; it is false
\* for every other material, two minor pieces of one side against the lone king included.
C17_InsufficientMaterialExact ==
  call.op = "isInsufficientMaterial" => (call.insufficient <=> NamedMaterial(call.board))

(***************************************************************************)
(* The check flag                                                          *)
(***************************************************************************)
\* the king of the side to move stands on the board and is attacked there by the opponent
KingAttacked ==
  LET Attacked(sq) ==
        /\ sq # NoCoord
        /\ calculateIsSquareAttacked(Load(currentBoard), sq,
                                     Opponent(gameState.currentTurn))
  IN Attacked(KingSquare(currentBoard, gameState.currentTurn))

\* C18: after every finalised move (castling and en passant included), undo and redo, the
\* isCheck flag is true exactly when the king of the side to move is attacked by the
\* opponent on the current board.
C18_IsCheckExact == gameState.isCheck <=> KingAttacked

(***************************************************************************)
(* The snapshot stack under moves, undo and redo                           *)
(***************************************************************************)
\* a step that commits a move keeps the snapshots up to the cursor, drops those beyond it
\* and pushes a snapshot of the position the move is made from; redo is then refused
MoveDiscardsTail ==
  LET gs == gameState
      cursor == gameState.currentSnapshotIndex
  IN (keys' = keys /\ gameState'.currentSnapshotIndex # cursor) =>
       /\ gameState'.currentSnapshotIndex = cursor + 1
       /\ gameState'.gameSnapshots =
            Append(SubSeq(gs.gameSnapshots, 1, cursor + 1), SnapshotOf(gs, currentBoard))
       /\ ~GameStateRedo(gameState').ok
       /\ controllerRedo(Ctrl') = Ctrl'

\* undo and redo leave the stack as it is and show the board of the snapshot at the cursor
KeysReadStack ==
  keys' # keys =>
    /\ gameState'.gameSnapshots = gameState.gameSnapshots
    /\ currentBoard' =
         gameState.gameSnapshots[gameState'.currentSnapshotIndex + 1].board

\* C19: after one or more undos followed by a newly committed move the snapshots beyond
\* the cursor are gone for good: redo returns null and changes nothing, and no later undo
\* or redo brings back a position of the discarded tail (undo and redo only read the
\* stack, which a move cuts at the cursor).
C19_BranchDiscard == [][MoveDiscardsTail /\ KeysReadStack]_vars

\* one undo, then a move: the top snapshot is the position the undo restored
C19_MovedAfterUndo ==
  LET gs == gameState
      top == Len(gameState.gameSnapshots)
  IN /\ keys = 1
     /\ top >= 3
     /\ gs.currentSnapshotIndex = top - 1
     /\ gs.gameSnapshots[top].board = gs.gameSnapshots[top - 1].board
     /\ Len(gs.moveHistory) = Len(gs.gameSnapshots[top].moveHistory) + 1
     /\ ~GameStateRedo(gs).ok

(***************************************************************************)
(* Undo after moves                                                        *)
(***************************************************************************)
\* the clicks that play the first n moves of a history
ClicksOf(h, n) ==
  [i \in 1..(2 * n) |->
     IF i % 2 = 1 THEN <<h[(i + 1) \div 2].from.row, h[(i + 1) \div 2].from.col>>
     ELSE <<h[i \div 2].to.row, h[i \div 2].to.col>>]

\* the first undo of a game of N >= 1 moves shows the game as it was after N - 1 moves
UndoShowsPreviousMove ==
  LET Shows(now, earlier) ==
        /\ now.currentBoard = earlier.currentBoard
        /\ now.gameState.currentTurn = earlier.gameState.currentTurn
        /\ now.gameState.moveHistory = earlier.gameState.moveHistory
        /\ now.gameState.lastMove = earlier.gameState.lastMove
        /\ now.gameState.whiteKingPos = earlier.gameState.whiteKingPos
        /\ now.gameState.blackKingPos = earlier.gameState.blackKingPos
        /\ now.gameState.halfMoveClock = earlier.gameState.halfMoveClock
        /\ now.gameState.positionHistory = earlier.gameState.positionHistory
        /\ now.gameState.isCheck = earlier.gameState.isCheck
        /\ now.gameState.isCheckmate = earlier.gameState.isCheckmate
        /\ now.gameState.isStalemate = earlier.gameState.isStalemate
        /\ now.gameState.isDraw = earlier.gameState.isDraw
  IN (keys = 0 /\ keys' = 1 /\ Len(gameState.moveHistory) >= 1) =>
       Shows(Ctrl', After(ClicksOf(gameState.moveHistory,
                                   Len(gameState.moveHistory) - 1)))

\* C20: after N >= 1 committed moves with no undo in between, a single undo leaves board,
\* turn, move history, last move, king positions, half-move clock, repetition map and end
\* flags exactly as they were after the first N - 1 moves.
C20_UndoOneMove == [][UndoShowsPreviousMove]_vars

(***************************************************************************)
(* Redo after undo                                                         *)
(***************************************************************************)
\* two controllers show the same game: board, turn, move history, last move, king
\* positions, clock, repetition map and end flags
SameGame(a, b) ==
  /\ a.currentBoard = b.currentBoard
  /\ a.gameState.currentTurn = b.gameState.currentTurn
  /\ a.gameState.moveHistory = b.gameState.moveHistory
  /\ a.gameState.lastMove = b.gameState.lastMove
  /\ a.gameState.whiteKingPos = b.gameState.whiteKingPos
  /\ a.gameState.blackKingPos = b.gameState.blackKingPos
  /\ a.gameState.halfMoveClock = b.gameState.halfMoveClock
  /\ a.gameState.positionHistory = b.gameState.positionHistory
  /\ a.gameState.isCheck = b.gameState.isCheck
  /\ a.gameState.isCheckmate = b.gameState.isCheckmate
  /\ a.gameState.isStalemate = b.gameState.isStalemate
  /\ a.gameState.isDraw = b.gameState.isDraw

\* the step is a successful undo
UndoStep ==
  /\ keys' = keys + 1
  /\ gameState'.currentSnapshotIndex = gameState.currentSnapshotIndex - 1

\* the step is a successful redo
RedoStep ==
  /\ keys' = keys + 1
  /\ gameState'.currentSnapshotIndex = gameState.currentSnapshotIndex + 1

\* C21: a successful undo immediately followed by redo restores board, turn, move
\* history, clocks, repetition map and flags to exactly the state that held before the
\* undo.
C21_RedoInvertsUndo == [][UndoStep => SameGame(controllerRedo(Ctrl'), Ctrl)]_vars

(***************************************************************************)
(* Undo and redo at the ends of the snapshot stack                         *)
(***************************************************************************)
\* g1 f3 g8 f6 e2 e4
KeysSquares == {<<0, 6>>, <<2, 5>>, <<7, 6>>, <<5, 5>>, <<1, 4>>, <<3, 4>>}

MaxPlyKeys == 3

NextKeys ==
  \/ HandleSquareClick(KeysSquares, MaxPlyKeys)
  \/ Undo(MaxKeys)
  \/ Redo(MaxKeys)

SpecKeys == Init /\ [][NextKeys]_vars

\* C22: undo with the cursor at the first snapshot and redo with the cursor at the last
\* snapshot return null and change no field of GameState; the cursor always satisfies
\* 0 <= currentSnapshotIndex <= gameSnapshots.length - 1.
C22_RefusedAtTheEnds ==
  LET gs == gameState
  IN /\ 0 <= gs.currentSnapshotIndex
     /\ gs.currentSnapshotIndex <= Len(gs.gameSnapshots) - 1
     /\ gs.currentSnapshotIndex = 0 =>
          /\ GameStateUndo(gs) = [ok |-> FALSE, gs |-> gs]
          /\ controllerUndo(Ctrl) = Ctrl
     /\ gs.currentSnapshotIndex = Len(gs.gameSnapshots) - 1 =>
          /\ GameStateRedo(gs) = [ok |-> FALSE, gs |-> gs]
          /\ controllerRedo(Ctrl) = Ctrl

\* a move has been undone: the cursor is back at the first snapshot with a snapshot beyond
C22_BackAtFirstSnapshot ==
  /\ keys = 1
  /\ gameState.currentSnapshotIndex = 0
  /\ Len(gameState.gameSnapshots) = 2
  /\ ~GameStateUndo(gameState).ok
  /\ GameStateRedo(gameState).ok

(***************************************************************************)
(* Clicks on a destination the selected piece has no move to               *)
(***************************************************************************)
\* no move from the selected square to sq is in the current legal-move list
NoMoveTo(sq) ==
  LET moves == gameState.allLegalMovesForCurrentTurn
  IN /\ selectedSquare # NoCoord
     /\ selectedSquare # Coord(sq[1], sq[2])
     /\ \A i \in 1..Len(moves) :
          ~(moves[i].from = selectedSquare /\ moves[i].to = Coord(sq[1], sq[2]))

\* C23: handleSquareClick towards a destination for which no move from the selected
\* square is in the current legal-move list throws nothing and leaves board, turn, move
\* history, clocks, repetition map and snapshot stack unchanged.
C23_IllegalAttemptRejected ==
  \A sq \in Rows \X Rows :
    NoMoveTo(sq) =>
      LET Rejected(c) ==
            /\ SameGame(c, Ctrl)
            /\ c.gameState.gameSnapshots = gameState.gameSnapshots
            /\ c.gameState.currentSnapshotIndex = gameState.currentSnapshotIndex
            /\ c.promotionMove = promotionMove
      IN Rejected(handleSquareClick(Ctrl, sq[1], sq[2]))

\* after 1.e4 the knight on g8 is selected: e4, where the white pawn went, is no move of
\* it, while its move to f6 is
C23_KnightSelected ==
  /\ Len(gameState.moveHistory) = 1
  /\ selectedSquare = Coord(7, 6)
  /\ NoMoveTo(<<3, 4>>)
  /\ ~NoMoveTo(<<5, 5>>)
  /\ handleSquareClick(Ctrl, 3, 4) = [Ctrl EXCEPT !.selectedSquare = NoCoord]

(***************************************************************************)
(* The moves of the opening position                                       *)
(***************************************************************************)
\* the number of different moves (by origin and destination) in the legal-move list
DifferentMoves ==
  LET moves == gameState.allLegalMovesForCurrentTurn
  IN Cardinality({<<moves[i].from, moves[i].to>> : i \in 1..Len(moves)})

\* the only move played is 1.e4
AfterE4 ==
  /\ Len(gameState.moveHistory) = 1
  /\ gameState.moveHistory[1].from = Coord(1, 4)
  /\ gameState.moveHistory[1].to = Coord(3, 4)

\* C24: from the standard initial position generateAllLegalMoves returns exactly 20 moves
\* for White, and after White commits 1.e4 it returns exactly 20 moves for Black.
C24_TwentyMoves ==
  LET moves == gameState.allLegalMovesForCurrentTurn
      Twenty(color) ==
        /\ gameState.currentTurn = color
        /\ Len(moves) = 20
        /\ DifferentMoves = 20
        /\ \A i \in 1..Len(moves) : moves[i].piece.color = color
  IN /\ (gameState.moveHistory = <<>> /\ currentBoard = createInitialBoard)
          => Twenty("white")
     /\ AfterE4 => Twenty("black")

\* 1.e4 has been committed and Black's list is there
C24_BlackToMoveAfterE4 ==
  /\ AfterE4
  /\ keys = 0
  /\ currentBoard[3][4] = Piece("pawn", "white", TRUE)
  /\ Len(gameState.allLegalMovesForCurrentTurn) = 20

(***************************************************************************)
(* The shortest mate                                                       *)
(***************************************************************************)
\* f2 f3 e7 e5 g2 g4 d8 h4, and g1 g8 f6 for the knights
FoolSquares ==
  {<<1, 5>>, <<2, 5>>, <<6, 4>>, <<4, 4>>, <<1, 6>>, <<3, 6>>, <<7, 3>>, <<3, 7>>,
   <<0, 6>>, <<7, 6>>, <<5, 5>>}

MaxPlyFool == 4

NextFool == HandleSquareClick(FoolSquares, MaxPlyFool)

SpecFool == Init /\ [][NextFool]_vars

\* the move history is 1.f3 e5 2.g4 Qh4
FoolsMatePlayed ==
  [i \in 1..Len(gameState.moveHistory) |->
     <<gameState.moveHistory[i].from, gameState.moveHistory[i].to>>]
  = <<<<Coord(1, 5), Coord(2, 5)>>, <<Coord(6, 4), Coord(4, 4)>>,
      <<Coord(1, 6), Coord(3, 6)>>, <<Coord(7, 3), Coord(3, 7)>>>>

\* C25: after 1.f3 e5 2.g4 Qh4 played from the initial position, isCheckmate is true,
\* isCheck is true and the legal-move list for White is empty.
C25_FoolsMate ==
  FoolsMatePlayed =>
    /\ gameState.currentTurn = "white"
    /\ gameState.isCheckmate
    /\ gameState.isCheck
    /\ gameState.allLegalMovesForCurrentTurn = <<>>

\* the queen stands on h4 after the four moves and the game is flagged as mate
C25_QueenOnH4 ==
  /\ FoolsMatePlayed
  /\ currentBoard[3][7] = Piece("queen", "black", TRUE)
  /\ gameState.isCheckmate
  /\ ~gameState.isStalemate

CheckKeysSquares ==
  {<<7, 5>>, <<3, 1>>, <<0, 4>>, <<0, 6>>, <<0, 1>>, <<1, 3>>, <<4, 0>>, <<3, 0>>}

NextCheckKeys ==
  \/ HandleSquareClick(CheckKeysSquares, MaxPlyCastleCheck)
  \/ Undo(MaxKeys)
  \/ Redo(MaxKeys)

SpecCheckKeys == InitCastleCheck /\ [][NextCheckKeys]_vars

\* the squares and colours the persistent cache has been asked about
Queried == {<<q[2], q[3], q[4]>> : q \in DOMAIN attackCache}

\* C27: the persistent attack cache is transparent: after any sequence of earlier
\* queries, moves, undos and redos, Game.isSquareAttacked(board, square, colour, state)
\* returns the same value as an uncached scan of that board for that square and colour
\* (asked for every square and colour the cache holds an answer for).
C27_AttackCacheTransparent ==
  \A k \in Queried :
    isSquareAttacked(attackCache, currentBoard, Coord(k[1], k[2]), k[3], gameState).result
      = calculateIsSquareAttacked(Load(currentBoard), Coord(k[1], k[2]), k[3])

\* after an undo the cache is asked again about a square it answered for the position
\* now on the board, and about e1, attacked in one position and not in another
C27_AnsweredBefore ==
  /\ keys >= 1
  /\ \E q \in DOMAIN attackCache : q[1] = getPositionKey(currentBoard, gameState)
  /\ \E q \in DOMAIN attackCache : q[2] = 0 /\ q[3] = 4 /\ attackCache[q]
  /\ \E q \in DOMAIN attackCache : q[2] = 0 /\ q[3] = 4 /\ ~attackCache[q]

(***************************************************************************)
(* getPositionKey called on pairs of positions taken from games            *)
(***************************************************************************)
\* 1.Nf3 Nf6 2.Ng1 Ng8;  1.h4 h5 2.Rh3 Rh6 3.Rh1 Rh8 4.Nf3 Nf6;  1.h4 h5 2.Nf3 Nf6;
\* 1.e3 e6 2.e4 e5;  1.e4 e5
KeyGames ==
  {<<<<0, 6>>, <<2, 5>>, <<7, 6>>, <<5, 5>>, <<2, 5>>, <<0, 6>>, <<5, 5>>, <<7, 6>>>>,
   <<<<1, 7>>, <<3, 7>>, <<6, 7>>, <<4, 7>>, <<0, 7>>, <<2, 7>>, <<7, 7>>, <<5, 7>>,
     <<2, 7>>, <<0, 7>>, <<5, 7>>, <<7, 7>>, <<0, 6>>, <<2, 5>>, <<7, 6>>, <<5, 5>>>>,
   <<<<1, 7>>, <<3, 7>>, <<6, 7>>, <<4, 7>>, <<0, 6>>, <<2, 5>>, <<7, 6>>, <<5, 5>>>>,
   <<<<1, 4>>, <<2, 4>>, <<6, 4>>, <<5, 4>>, <<2, 4>>, <<3, 4>>, <<5, 4>>, <<4, 4>>>>,
   <<<<1, 4>>, <<3, 4>>, <<6, 4>>, <<4, 4>>>>}

\* what getPositionKey is given after a game: the board and the state fields it reads
PositionOf(c) ==
  [board |-> c.currentBoard,
   gs |-> [currentTurn |-> c.gameState.currentTurn, lastMove |-> c.gameState.lastMove]]

\* the positions after every move of the games
KeyPositions ==
  UNION {{PositionOf(After(SubSeq(game, 1, 2 * n))) : n \in 0..(Len(game) \div 2)} :
           game \in KeyGames}

InitPositionKey ==
  /\ call \in {[op |-> "positions", a |-> p, b |-> q, keyA |-> <<>>, keyB |-> <<>>] :
                 p \in KeyPositions, q \in KeyPositions}
  /\ keys = 0
  /\ choice = "none"
  /\ Constructed(NewController)

GetPositionKey ==
  /\ call.op = "positions"
  /\ call' = [call EXCEPT !.op = "getPositionKey",
                          !.keyA = getPositionKey(call.a.board, call.a.gs),
                          !.keyB = getPositionKey(call.b.board, call.b.gs)]
  /\ UNCHANGED <<currentBoard, selectedSquare, promotionMove, moveList, gameState,
                 attackCache, keys, choice>>

NextPositionKey == GetPositionKey

SpecPositionKey == InitPositionKey /\ [][NextPositionKey]_vars

\* kind and colour on every square
Placement(board) ==
  [r \in Rows |-> [c \in Rows |-> <<board[r][c].type, board[r][c].color>>]]

\* the castling rights: colour and rook file of every unmoved king on its home square
\* with an unmoved rook of its colour on the corner
CastlingRights(board) ==
  {<<color, rookCol>> \in {"white", "black"} \X {0, 7} :
     LET rank == IF color = "white" THEN 0 ELSE 7
     IN /\ board[rank][4] = Piece("king", color, FALSE)
        /\ board[rank][rookCol] = Piece("rook", color, FALSE)}

\* the square passed over by the pawn that last advanced two squares (NoCoord otherwise)
EnPassantTarget(gs) ==
  IF gs.lastMove # NoMove /\ gs.lastMove.piece.type = "pawn"
     /\ Abs(gs.lastMove.to.row - gs.lastMove.from.row) = 2
  THEN Coord((gs.lastMove.from.row + gs.lastMove.to.row) \div 2, gs.lastMove.from.col)
  ELSE NoCoord

SameIdentity(p, q) ==
  /\ Placement(p.board) = Placement(q.board)
  /\ p.gs.currentTurn = q.gs.currentTurn
  /\ CastlingRights(p.board) = CastlingRights(q.board)
  /\ EnPassantTarget(p.gs) = EnPassantTarget(q.gs)

\* C28: two (board, game state) pairs receive the same position-identity key exactly when
\* they agree on piece placement, side to move, the four castling rights derived from
\* unmoved king and unmoved corner rook on their home squares, and the en-passant target
\* square derived from the last move; hasMoved flags of other pieces do not affect the key.
C28_PositionKeyExact ==
  call.op = "getPositionKey" => (call.keyA = call.keyB <=> SameIdentity(call.a, call.b))

\* the keys of two positions that differ in the hasMoved flags of the knights only
C28_KnightsCameHome ==
  /\ call.op = "getPositionKey"
  /\ call.a.board = createInitialBoard
  /\ call.b.board # createInitialBoard
  /\ Placement(call.b.board) = Placement(createInitialBoard)
  /\ call.keyA = call.keyB

(***************************************************************************)
(* EventEmitter: listeners, emits and the microtasks that deliver them      *)
(***************************************************************************)
EventTypes == {"boardUpdate", "gameEnd"}

MaxEmits == 3

\* the function a caller passes to on or once
Callback(type, name) == [type |-> type, name |-> name, once |-> FALSE]

\* the arrow function once() passes to on(): it calls off() and then cb
OnceWrapper(type, cb) == [type |-> type, name |-> cb.name, once |-> TRUE]

\* a new EventEmitter with no microtask queued and no callback invoked yet; the Set of
\* listeners of a type is kept in insertion order.  What the callbacks have seen: invoked
\* counts their invocations, received lists the payloads in the order of arrival, errors
\* counts the exceptions caught and logged.  What the callers have done: due lists for
\* every callback the payloads emitted while it was subscribed, removed holds the
\* listeners unsubscribed by off, by an unsubscribe function or by clear.
NewEmitter ==
  [op |-> "emitter",
   listeners |-> [t \in EventTypes |-> <<>>],
   microtasks |-> <<>>,
   invoked |-> [t \in EventTypes |-> [n \in {"on", "once", "throws"} |-> 0]],
   received |-> [t \in EventTypes |-> [n \in {"on", "once", "throws"} |-> <<>>]],
   errors |-> 0,
   due |-> [t \in EventTypes |-> [n \in {"on", "once", "throws"} |-> <<>>]],
   removed |-> {},
   registered |-> {},
   emits |-> 0]

\* EventEmitter.on: set.add(cb)
on(e, type, cb) ==
  IF \E i \in 1..Len(e.listeners[type]) : e.listeners[type][i] = cb THEN e
  ELSE [e EXCEPT !.listeners[type] = Append(@, cb)]

\* EventEmitter.off: set.delete(cb)
off(e, type, cb) ==
  [e EXCEPT !.listeners[type] = SelectSeq(@, LAMBDA l : l # cb)]

\* EventEmitter.once
once(e, type, cb) == on(e, type, OnceWrapper(type, cb))

\* EventEmitter.emit: one microtask queued for every listener of the type, each holding
\* its listener and the payload of the event
emit(e, event) ==
  LET cbs == e.listeners[event.type]
  IN IF Len(cbs) = 0 THEN e
     ELSE [e EXCEPT !.microtasks =
             @ \o [i \in 1..Len(cbs) |-> [cb |-> cbs[i], data |-> event.data]]]

\* EventEmitter.clear
clear(e) == [e EXCEPT !.listeners = [t \in EventTypes |-> <<>>]]

\* a microtask that lets the exception of its listener escape: the deliveries of the
\* same event that are still queued are lost
runMicrotaskUncaught(e) ==
  LET task == Head(e.microtasks)
      l == task.cb
      Invoke(e1) == [e1 EXCEPT !.invoked[l.type][l.name] = @ + 1,
                               !.received[l.type][l.name] = Append(@, task.data)]
      rest == [e EXCEPT !.microtasks = Tail(@)]
      called == IF l.once THEN Invoke(off(rest, l.type, l)) ELSE Invoke(rest)
  IN IF l.name = "throws"
     THEN [called EXCEPT !.microtasks = SelectSeq(@, LAMBDA t : t.data # task.data)]
     ELSE called

\* the microtask at the head of the queue runs its listener with the payload; an
\* exception of the listener is caught and logged
runMicrotask(e) ==
  LET task == Head(e.microtasks)
      l == task.cb
      Invoke(e1) == [e1 EXCEPT !.invoked[l.type][l.name] = @ + 1,
                               !.received[l.type][l.name] = Append(@, task.data)]
      rest == [e EXCEPT !.microtasks = Tail(@)]
      called == IF l.once THEN Invoke(off(rest, l.type, l)) ELSE Invoke(rest)
  IN IF l.name = "throws" THEN [called EXCEPT !.errors = @ + 1] ELSE called

EmitterUnchanged ==
  UNCHANGED <<currentBoard, selectedSquare, promotionMove, moveList, gameState,
              attackCache, keys, choice>>

InitEmitter ==
  call = NewEmitter /\ keys = 0 /\ choice = "none" /\ Constructed(NewController)

On ==
  \E type \in EventTypes :
    /\ <<type, "on">> \notin call.registered
    /\ call' = [on(call, type, Callback(type, "on")) EXCEPT
                  !.registered = @ \cup {<<type, "on">>}]
    /\ EmitterUnchanged

\* once(type, cb) is called a single time for each type
Once ==
  \E type \in EventTypes :
    /\ <<type, "once">> \notin call.registered
    /\ call' = [once(call, type, Callback(type, "once")) EXCEPT
                  !.registered = @ \cup {<<type, "once">>}]
    /\ EmitterUnchanged

\* the payload of the n-th event emitted is n; it is due to the callbacks subscribed
Emit ==
  \E type \in EventTypes :
    LET event == [type |-> type, data |-> call.emits + 1]
        subscribed == {call.listeners[type][i].name : i \in 1..Len(call.listeners[type])}
    IN /\ call.emits < MaxEmits
       /\ call' = [emit(call, event) EXCEPT
                     !.emits = @ + 1,
                     !.due[type] = [n \in DOMAIN @ |->
                                      IF n \in subscribed THEN Append(@[n], event.data)
                                      ELSE @[n]]]
       /\ EmitterUnchanged

Microtask ==
  /\ call.microtasks # <<>>
  /\ call' = runMicrotask(call)
  /\ EmitterUnchanged

NextEmitter == On \/ Once \/ Emit \/ Microtask

SpecEmitter == InitEmitter /\ [][NextEmitter]_vars

\* C29: a listener registered with EventEmitter.once(type, cb) is invoked at most once,
\* however many events of that type are emitted afterwards and however the emits are
\* spaced relative to the microtask deliveries.
C29_OnceAtMostOnce == \A type \in EventTypes : call.invoked[type]["once"] <= 1

(***************************************************************************)
(* Undo and redo while the promotion dialog is open                        *)
(***************************************************************************)
\* a promotion is pending and the board no longer shows its pawn on the destination: the
\* board was replaced by a snapshot (undo or redo) after the dialog opened
PendingOutdated ==
  /\ promotionMove # NoMove
  /\ currentBoard[promotionMove.to.row][promotionMove.to.col]
       # [promotionMove.piece EXCEPT !.hasMoved = TRUE]

\* the step is the choice of a piece in the promotion dialog
ChoiceStep == promotionMove # NoMove /\ promotionMove' = NoMove /\ keys' = keys

\* C30: a pending promotion is bound to the move that requested it: if undo or redo is
\* performed while a promotion is pending, a later onPromotionPieceSelected adds no move
\* to history, does not switch the turn and does not change the board.
C30_PendingPromotionBound ==
  [][(ChoiceStep /\ PendingOutdated) =>
       /\ gameState'.moveHistory = gameState.moveHistory
       /\ gameState'.currentTurn = gameState.currentTurn
       /\ currentBoard' = currentBoard]_vars


(***************************************************************************)
(* The end of the game and the clicks that follow it                       *)
(***************************************************************************)
\* checkGameEnd has found the game ended
GameOver == gameState.isCheckmate \/ gameState.isStalemate \/ gameState.isDraw

\* the step is a click (Ctrl+Z and Ctrl+Y count the keys)
ClickStep == keys' = keys /\ choice' = choice

\* C31: once the game has ended (isCheckmate, isStalemate or isDraw), a click commits no
\* further move: board, turn and move history stay unchanged until an undo.
C31_NoMoveAfterGameEnd ==
  [][(GameOver /\ ClickStep) =>
       /\ currentBoard' = currentBoard
       /\ gameState'.currentTurn = gameState.currentTurn
       /\ gameState'.moveHistory = gameState.moveHistory]_vars


(***************************************************************************)
(* The fields of GameState that follow the move history                    *)
(***************************************************************************)
\* C32: after any sequence of finalised moves, promotions, undos and redos, currentTurn
\* is white exactly when moveHistory has even length, and lastMove is the last element
\* of moveHistory (null when moveHistory is empty).
C32_TurnAndLastMove ==
  LET h == gameState.moveHistory
  IN /\ gameState.currentTurn = "white" <=> Len(h) % 2 = 0
     /\ gameState.lastMove = IF h = <<>> THEN NoMove ELSE h[Len(h)]

\* a promotion has been finalised and Ctrl+Z has then restored an earlier snapshot
C32_UndoneAfterPromotion ==
  /\ keys >= 1
  /\ choice # "none"
  /\ promotionMove = NoMove
  /\ gameState.currentSnapshotIndex < Len(gameState.gameSnapshots) - 1
  /\ gameState.moveHistory # <<>>
  /\ \A i \in 1..Len(gameState.moveHistory) : gameState.moveHistory[i].promotion = "none"


(***************************************************************************)
(* Games of the king's knights, out and back, with Ctrl+Z and Ctrl+Y       *)
(***************************************************************************)
\* g1 f3 g8 f6
RepetitionKeysSquares == {<<0, 6>>, <<2, 5>>, <<7, 6>>, <<5, 5>>}

MaxPlyRepetitionKeys == 6

NextRepetitionKeys ==
  \/ HandleSquareClick(RepetitionKeysSquares, MaxPlyRepetitionKeys)
  \/ Undo(MaxKeys)
  \/ Redo(MaxKeys)

SpecRepetitionKeys == Init /\ [][NextRepetitionKeys]_vars

RECURSIVE SumOfCounts(_)
\* the sum of the values of a map
SumOfCounts(m) ==
  IF DOMAIN m = {} THEN 0
  ELSE LET k == CHOOSE k \in DOMAIN m : TRUE
       IN m[k] + SumOfCounts([j \in DOMAIN m \ {k} |-> m[j]])

\* C33: after any sequence of finalised moves, undos and redos, the occurrence counts
\* stored in positionHistory sum to moveHistory.length + 1, and the position-identity key
\* of the current board and state has a count of at least 1.
C33_PositionHistoryCounts ==
  /\ SumOfCounts(gameState.positionHistory) = Len(gameState.moveHistory) + 1
  /\ MapGet(gameState.positionHistory, getPositionKey(currentBoard, gameState), 0) >= 1

\* Ctrl+Z has restored a position of a game in which a position has occurred twice
C33_UndoneAfterRepeat ==
  /\ keys >= 1
  /\ gameState.currentSnapshotIndex < Len(gameState.gameSnapshots) - 1
  /\ \E k \in DOMAIN gameState.positionHistory : gameState.positionHistory[k] >= 2


\* C34: after any sequence of finalised moves, undos and redos, the notation list of the
\* controller (moveList) has exactly one entry per move in GameState.moveHistory.
C34_MoveListMatchesHistory ==
  promotionMove = NoMove => Len(moveList) = Len(gameState.moveHistory)


(***************************************************************************)
(* EventEmitter with unsubscription, clear and a listener that throws      *)
(***************************************************************************)
\* on(type, cb) with a callback that throws
OnThrowing ==
  \E type \in EventTypes :
    /\ <<type, "throws">> \notin call.registered
    /\ call' = [on(call, type, Callback(type, "throws")) EXCEPT
                  !.registered = @ \cup {<<type, "throws">>}]
    /\ EmitterUnchanged

\* off(type, cb), or the unsubscribe function on and once return, for a listener that
\* is subscribed
Off ==
  \E type \in EventTypes :
    \E i \in 1..Len(call.listeners[type]) :
      LET l == call.listeners[type][i]
      IN /\ call' = [off(call, type, l) EXCEPT !.removed = @ \cup {l}]
         /\ EmitterUnchanged

\* clear(), called a single time (ChessGameController.destroy)
Clear ==
  /\ <<"all", "clear">> \notin call.registered
  /\ call' = [clear(call) EXCEPT
                !.registered = @ \cup {<<"all", "clear">>},
                !.removed = @ \cup UNION {{call.listeners[t][i] : i \in 1..Len(call.listeners[t])}
                                            : t \in EventTypes}]
  /\ EmitterUnchanged

\* the callers subscribe to 'gameEnd' alone (an emit of 'boardUpdate' finds no listener)
GameEndOnly == call'.listeners["boardUpdate"] = <<>>

NextEmitterOff ==
  \/ On /\ GameEndOnly
  \/ Once /\ GameEndOnly
  \/ OnThrowing /\ GameEndOnly
  \/ Off
  \/ Clear
  \/ Emit
  \/ Microtask

\* the microtasks queued are run by the event loop
SpecEmitterOff == InitEmitter /\ [][NextEmitterOff]_vars /\ WF_vars(Microtask)

\* the step invokes a listener
Delivery == call'.invoked # call.invoked

\* C35: after off(type, cb), the unsubscribe function returned by on or once, or
\* clear() has been called, the listener is never invoked again, not even for events
\* emitted before the unsubscription and not yet delivered.
C35_NoDeliveryAfterOff ==
  [][Delivery => Head(call.microtasks).cb \notin call.removed]_vars


\* the payloads a callback has received are the first of those due to it, in their order
ReceivedInOrder ==
  \A t \in EventTypes : \A n \in DOMAIN call.received[t] :
    LET got == call.received[t][n]
    IN Len(got) <= Len(call.due[t][n]) /\ got = SubSeq(call.due[t][n], 1, Len(got))

\* every callback has received all that is due to it
AllDelivered == call.received = call.due

\* C36: every event passed to emit is delivered exactly once to each listener subscribed
\* for its type at the time of the emit, each listener receives the events in the order
\* they were emitted, and a listener that throws does not prevent the delivery to the
\* other listeners.
C36_DeliveredOnceInOrder == [](ReceivedInOrder) /\ []<>AllDelivered

\* two events have been delivered to a callback that throws and then to the callback
\* subscribed after it
C36_DeliveredAfterThrow ==
  /\ call.listeners["gameEnd"] = <<Callback("gameEnd", "throws"), Callback("gameEnd", "on")>>
  /\ call.errors = 2
  /\ call.received["gameEnd"]["throws"] = <<1, 2>>
  /\ call.received["gameEnd"]["on"] = <<1, 2>>
  /\ call.microtasks = <<>>


(***************************************************************************)
(* The piece validators called directly                                    *)
(***************************************************************************)
\* the initial board and the board after 1.e4 d5
ValidatorBoards == {createInitialBoard, After(CaptureGame).currentBoard}

\* one piece of every kind, and a pawn of either colour
ValidatorPieces ==
  {Piece(t, "white", FALSE) : t \in {"pawn", "knight", "bishop", "rook", "queen", "king"}}
    \cup {Piece("pawn", "black", FALSE)}

Squares == {Coord(r, c) : r \in Rows, c \in Rows}

InitValidator ==
  /\ call \in {[op |-> "input", board |-> b, piece |-> p, from |-> from, to |-> to,
                valid |-> FALSE] :
                 b \in ValidatorBoards, p \in ValidatorPieces,
                 from \in Squares, to \in Squares}
  /\ keys = 0
  /\ choice = "none"
  /\ Constructed(NewController)

\* ValidatorFactory.getValidatorCached(piece).isValidMove(board, from, to)
IsValidMove ==
  /\ call.op = "input"
  /\ call' = [call EXCEPT !.op = "isValidMove",
                          !.valid = isValidMove(Load(call.board), call.piece,
                                                call.from, call.to)]
  /\ UNCHANGED <<currentBoard, selectedSquare, promotionMove, moveList, gameState,
                 attackCache, keys, choice>>

NextValidator == IsValidMove

SpecValidator == InitValidator /\ [][NextValidator]_vars

\* to is one of the potential destinations of the piece on from
PotentialDestination ==
  LET moves == getPotentialMoves(call.piece, call.from)
  IN \E i \in 1..Len(moves) : moves[i] = call.to

\* the squares strictly between from and to on a common line
Between ==
  LET rowDiff == call.to.row - call.from.row
      colDiff == call.to.col - call.from.col
      n == Max(Abs(rowDiff), Abs(colDiff))
  IN {Coord(call.from.row + k * Sign(rowDiff), call.from.col + k * Sign(colDiff)) :
        k \in 1..(n - 1)}

\* from and to are different squares of one diagonal, resp. of one row or column
Diagonal ==
  call.to # call.from
    /\ Abs(call.to.row - call.from.row) = Abs(call.to.col - call.from.col)

Orthogonal ==
  call.to # call.from /\ (call.to.row = call.from.row \/ call.to.col = call.from.col)

\* the result of isValidMove is what the claim allows for the kind of the piece
ValidAsClaimed ==
  LET rowDiff == Abs(call.to.row - call.from.row)
      colDiff == Abs(call.to.col - call.from.col)
      pathEmpty == \A sq \in Between : call.board[sq.row][sq.col] = NoPiece
      kind == call.piece.type
  IN /\ call.valid => (call.to # call.from /\ PotentialDestination)
     /\ kind = "king" => (call.valid <=> Max(rowDiff, colDiff) = 1)
     /\ kind = "knight" => (call.valid <=> {rowDiff, colDiff} = {1, 2})
     /\ kind = "bishop" => (call.valid => Diagonal /\ pathEmpty)
     /\ kind = "rook" => (call.valid => Orthogonal /\ pathEmpty)
     /\ kind = "queen" => (call.valid => (Diagonal \/ Orthogonal) /\ pathEmpty)

\* C37: for every piece kind, board and squares from, to, isValidMove(board, from, to)
\* is true only if to differs from from and to is a member of getPotentialMoves(from);
\* for king and knight it is true exactly for the 8 adjacent squares resp. the 8 L-shaped
\* offsets, and for bishop, rook and queen only with strict diagonal or orthogonal
\* alignment and every intervening square empty.
C37_IsValidMoveExact == call.op = "isValidMove" => ValidAsClaimed

====
